---- MODULE Spec2Model ----
(***************************************************************************)
(* Download routing and file-type detection of the xlwings Lite data       *)
(* importer (src/data-importer/downloader-links-secure-token-stats-raw.py). *)
(*                                                                         *)
(* Text is a sequence of one-character strings.  A byte buffer is a        *)
(* sequence of byte tokens: an ASCII byte is written as its character,     *)
(* "x00" is the NUL byte, "xC3" "xA9" is the two-byte UTF-8 encoding of     *)
(* U+00E9, and "xFF" is a byte that occurs in no UTF-8 encoding.  Python's *)
(* None is the value None.                                                 *)
(***************************************************************************)
EXTENDS Integers, Sequences, FiniteSets, TLC

VARIABLES
    call,           \* the resolver/classifier call under way: function, arguments, result
    temp_files,     \* temp directory: standard temp path -> bytes of the file there (or None)
    raw_files,      \* temp directory: path of a raw download -> bytes of the file there (or None)
    last_state,     \* contents of last_import_state.json (NoState while there is none)
    cells,          \* status cells of the workbook (D5 and D8 of the share-link sheet, D5..D7 of TOKEN_ACCESS)
    run,            \* inputs and locals of the latest script invocation
    _dropbox_token, \* module global _dropbox_token: the cached Dropbox access token (or None)
    _gdrive_token,  \* module global _gdrive_token: the cached Google Drive access token (or None)
    _loaded_modules, \* module global _loaded_modules: module name -> globals of the loaded module
    runs            \* number of script invocations so far

vars == <<call, temp_files, raw_files, last_state, cells, run, _dropbox_token, _gdrive_token,
         _loaded_modules, runs>>

None == "None"

\* None where the program otherwise holds a str or bytes value
NoText == <<None>>

-----------------------------------------------------------------------------
(* Bounds of the model *)

\* how far around each length threshold the generated buffers reach
MaxPad == 1

\* script invocations in one session
MaxRuns == 2

\* directory segments in front of a file name
MaxDirs == 1

\* calls of the token functions in one session
MaxCalls == 3

\* calls of load_remote_module in one session
MaxLoads == 3

-----------------------------------------------------------------------------
(* Python str / bytes primitives *)

\* Body applied to the value of e: a local that is computed once
With(e, Body(_)) == Body(e)

Min(a, b) == IF a < b THEN a ELSE b
Max(a, b) == IF a > b THEN a ELSE b

\* s[:n]
Take(s, n) == SubSeq(s, 1, Min(n, Len(s)))

\* s[-n:]
LastN(s, n) == SubSeq(s, Max(1, Len(s) - n + 1), Len(s))

\* s.startswith(p)
startswith(s, p) == Len(s) >= Len(p) /\ SubSeq(s, 1, Len(p)) = p

\* s.endswith(p)
endswith(s, p) == Len(s) >= Len(p) /\ SubSeq(s, Len(s) - Len(p) + 1, Len(s)) = p

\* p in s
contains(s, p) ==
    \E i \in 1..(Len(s) - Len(p) + 1) : \A k \in 1..Len(p) : s[i + k - 1] = p[k]

\* s.count(c) for a single character c
count(s, c) == Cardinality({i \in 1..Len(s) : s[i] = c})

UpperCase == {"A", "B", "C", "D", "E", "F", "G", "H", "I", "J", "K", "L", "M",
              "N", "O", "P", "Q", "R", "S", "T", "U", "V", "W", "X", "Y", "Z"}

LowerOf == [c \in UpperCase |->
    CASE c = "A" -> "a" [] c = "B" -> "b" [] c = "C" -> "c" [] c = "D" -> "d"
      [] c = "E" -> "e" [] c = "F" -> "f" [] c = "G" -> "g" [] c = "H" -> "h"
      [] c = "I" -> "i" [] c = "J" -> "j" [] c = "K" -> "k" [] c = "L" -> "l"
      [] c = "M" -> "m" [] c = "N" -> "n" [] c = "O" -> "o" [] c = "P" -> "p"
      [] c = "Q" -> "q" [] c = "R" -> "r" [] c = "S" -> "s" [] c = "T" -> "t"
      [] c = "U" -> "u" [] c = "V" -> "v" [] c = "W" -> "w" [] c = "X" -> "x"
      [] c = "Y" -> "y" [] c = "Z" -> "z"]

\* s.lower()
lower(s) == [i \in 1..Len(s) |-> IF s[i] \in UpperCase THEN LowerOf[s[i]] ELSE s[i]]

\* the characters str.strip() removes
Whitespace == {" ", "\t", "\n", "\r"}

\* s.strip()
strip(s) ==
    IF \A i \in 1..Len(s) : s[i] \in Whitespace THEN <<>>
    ELSE SubSeq(s,
            CHOOSE i \in 1..Len(s) :
                s[i] \notin Whitespace /\ \A j \in 1..(i - 1) : s[j] \in Whitespace,
            CHOOSE i \in 1..Len(s) :
                s[i] \notin Whitespace /\ \A j \in (i + 1)..Len(s) : s[j] \in Whitespace)

\* s.split(c)[0] : the part of s before the first occurrence of c
SplitFirst(s, c) ==
    IF \A i \in 1..Len(s) : s[i] # c THEN s
    ELSE SubSeq(s, 1, (CHOOSE i \in 1..Len(s) :
                            s[i] = c /\ \A j \in 1..(i - 1) : s[j] # c) - 1)

\* bytes whose value is below 0x80
IsAsciiByte(b) == b \notin {"xC3", "xA9", "xFF"}

\* b.decode('utf-8', errors='ignore') : undecodable bytes are dropped
DecodeIgnore(b) ==
    LET d == [i \in 1..Len(b) |->
                IF IsAsciiByte(b[i]) THEN b[i]
                ELSE IF b[i] = "xC3" /\ i < Len(b) /\ b[i + 1] = "xA9" THEN "U+00E9"
                ELSE ""]
    IN  SelectSeq(d, LAMBDA c : c # "")

\* does b.decode('utf-8', errors='strict') succeed
DecodesStrict(b) ==
    \A i \in 1..Len(b) :
        /\ b[i] # "xFF"
        /\ b[i] = "xC3" => (i < Len(b) /\ b[i + 1] = "xA9")
        /\ b[i] = "xA9" => (i > 1 /\ b[i - 1] = "xC3")

-----------------------------------------------------------------------------
(* File type detection from the downloaded bytes *)

MIN_SNIFF_LEN == 20
HTML_SAMPLE_LEN == 500
HTML_SCAN_LEN == 200
MAGIC_LEN == 4
DUCK_SCAN_LEN == 20
SQLITE_SCAN_LEN == 16
TEXT_SAMPLE_LEN == 2048
MIN_DELIMITER_COUNT == 2

PAR1 == <<"P", "A", "R", "1">>
DUCK == <<"D", "U", "C", "K">>
SQLITE_MAGIC == <<"S", "Q", "L", "i", "t", "e", " ", "f", "o", "r", "m", "a", "t", " ", "3">>
DOCTYPE_TAG == <<"<", "!", "d", "o", "c", "t", "y", "p", "e">>
HTML_TAG == <<"<", "h", "t", "m", "l">>

\* the HTML test of detect_file_type_from_bytes
LooksLikeHtml(file_bytes) ==
    LET text_start == strip(lower(DecodeIgnore(Take(file_bytes, HTML_SAMPLE_LEN))))
    IN  \/ startswith(text_start, DOCTYPE_TAG)
        \/ startswith(text_start, HTML_TAG)
        \/ contains(Take(text_start, HTML_SCAN_LEN), HTML_TAG)

\* SniffDelimited with the comma test ahead of the pipe and tab tests
SniffDelimited_CommaFirst(text_sample) ==
    LET first_line == SplitFirst(SplitFirst(text_sample, "\n"), "\r")
    IN  IF count(first_line, ",") >= MIN_DELIMITER_COUNT THEN "csv"
        ELSE IF count(first_line, "|") >= MIN_DELIMITER_COUNT THEN "pipe"
        ELSE IF count(first_line, "\t") >= MIN_DELIMITER_COUNT THEN "tsv"
        ELSE "txt"

\* SniffDelimited that also accepts a single delimiter
SniffDelimited_AnyCount(text_sample) ==
    LET first_line == SplitFirst(SplitFirst(text_sample, "\n"), "\r")
    IN  IF count(first_line, "|") >= 1 THEN "pipe"
        ELSE IF count(first_line, "\t") >= 1 THEN "tsv"
        ELSE IF count(first_line, ",") >= 1 THEN "csv"
        ELSE "txt"

\* the delimiter-counting tail of detect_file_type_from_bytes
SniffDelimited(text_sample) ==
    LET first_line == SplitFirst(SplitFirst(text_sample, "\n"), "\r")
        pipe_count == count(first_line, "|")
        tab_count == count(first_line, "\t")
        comma_count == count(first_line, ",")
    IN  IF pipe_count >= MIN_DELIMITER_COUNT THEN "pipe"
        ELSE IF tab_count >= MIN_DELIMITER_COUNT THEN "tsv"
        ELSE IF comma_count >= MIN_DELIMITER_COUNT THEN "csv"
        ELSE "txt"

\* the text part of detect_file_type_from_bytes, after the binary signatures
SniffText(file_bytes) ==
    LET sample == Take(file_bytes, TEXT_SAMPLE_LEN)
        text_sample == DecodeIgnore(sample)
        stripped == strip(text_sample)
        first_char == IF stripped # <<>> THEN stripped[1] ELSE ""
    IN  IF ~DecodesStrict(sample) THEN None
        ELSE IF first_char \in {"{", "["} THEN "json"
        ELSE IF ~contains(text_sample, <<"\n">>) /\ ~contains(text_sample, <<"\r">>) THEN "txt"
        ELSE SniffDelimited(text_sample)

\* detect_file_type_from_bytes with the HTML test after the binary signatures
detect_file_type_from_bytes_HtmlLate(file_bytes) ==
    IF Len(file_bytes) < MIN_SNIFF_LEN THEN None
    ELSE IF Take(file_bytes, MAGIC_LEN) = PAR1 \/ LastN(file_bytes, MAGIC_LEN) = PAR1 THEN "parquet"
    ELSE IF contains(Take(file_bytes, DUCK_SCAN_LEN), DUCK) THEN "duckdb"
    ELSE IF contains(Take(file_bytes, SQLITE_SCAN_LEN), SQLITE_MAGIC) THEN "duckdb"
    ELSE IF LooksLikeHtml(file_bytes) THEN "html_error"
    ELSE SniffText(file_bytes)

\* detect_file_type_from_bytes without the minimum length test
detect_file_type_from_bytes_NoMinLen(file_bytes) ==
    IF LooksLikeHtml(file_bytes) THEN "html_error"
    ELSE IF Take(file_bytes, MAGIC_LEN) = PAR1 \/ LastN(file_bytes, MAGIC_LEN) = PAR1 THEN "parquet"
    ELSE IF contains(Take(file_bytes, DUCK_SCAN_LEN), DUCK) THEN "duckdb"
    ELSE IF contains(Take(file_bytes, SQLITE_SCAN_LEN), SQLITE_MAGIC) THEN "duckdb"
    ELSE SniffText(file_bytes)

\* detect_file_type_from_bytes that looks for PAR1 only at the start of the file
detect_file_type_from_bytes_HeadOnly(file_bytes) ==
    IF Len(file_bytes) < MIN_SNIFF_LEN THEN None
    ELSE IF LooksLikeHtml(file_bytes) THEN "html_error"
    ELSE IF Take(file_bytes, MAGIC_LEN) = PAR1 THEN "parquet"
    ELSE IF contains(Take(file_bytes, DUCK_SCAN_LEN), DUCK) THEN "duckdb"
    ELSE IF contains(Take(file_bytes, SQLITE_SCAN_LEN), SQLITE_MAGIC) THEN "duckdb"
    ELSE SniffText(file_bytes)

detect_file_type_from_bytes(file_bytes) ==
    IF Len(file_bytes) < MIN_SNIFF_LEN THEN None
    ELSE IF LooksLikeHtml(file_bytes) THEN "html_error"
    ELSE IF Take(file_bytes, MAGIC_LEN) = PAR1 \/ LastN(file_bytes, MAGIC_LEN) = PAR1 THEN "parquet"
    ELSE IF contains(Take(file_bytes, DUCK_SCAN_LEN), DUCK) THEN "duckdb"
    ELSE IF contains(Take(file_bytes, SQLITE_SCAN_LEN), SQLITE_MAGIC) THEN "duckdb"
    ELSE SniffText(file_bytes)

detect_delimiter_from_content_TabFirst(file_bytes) ==
    LET first_line == DecodeIgnore(SplitFirst(file_bytes, "\n"))
    IN  IF count(first_line, "\t") > 0 THEN "\t"
        ELSE IF count(first_line, "|") > 0 THEN "|"
        ELSE ","

detect_delimiter_from_content(file_bytes) ==
    LET first_line == DecodeIgnore(SplitFirst(file_bytes, "\n"))
    IN  IF count(first_line, "|") > 0 THEN "|"
        ELSE IF count(first_line, "\t") > 0 THEN "\t"
        ELSE ","

-----------------------------------------------------------------------------
(* More Python str primitives, used on URLs, paths and headers *)

LowerCase == {"a", "b", "c", "d", "e", "f", "g", "h", "i", "j", "k", "l", "m",
              "n", "o", "p", "q", "r", "s", "t", "u", "v", "w", "x", "y", "z"}
Digits == {"0", "1", "2", "3", "4", "5", "6", "7", "8", "9"}

\* the regular expression class [a-zA-Z0-9_-]
IdChars == LowerCase \cup UpperCase \cup Digits \cup {"_", "-"}

\* index of the first occurrence of p in s at or after position from (0 if none)
Find(s, p, from) ==
    With({i \in from..(Len(s) - Len(p) + 1) : \A k \in 1..Len(p) : s[i + k - 1] = p[k]},
         LAMBDA hits : IF hits = {} THEN 0 ELSE CHOOSE i \in hits : \A j \in hits : i <= j)

\* s[i:] (1-based i)
Drop(s, i) == SubSeq(s, i, Len(s))

\* s.split(c) for a single character c
RECURSIVE Split(_, _)
Split(s, c) ==
    With(Find(s, <<c>>, 1),
         LAMBDA i : IF i = 0 THEN <<s>> ELSE <<SubSeq(s, 1, i - 1)>> \o Split(Drop(s, i + 1), c))

\* sep.join(parts)
RECURSIVE Join(_, _)
Join(parts, sep) ==
    IF parts = <<>> THEN <<>>
    ELSE IF Len(parts) = 1 THEN parts[1]
    ELSE parts[1] \o sep \o Join(Tail(parts), sep)

\* s.rstrip(c)
RECURSIVE rstrip(_, _)
rstrip(s, c) ==
    IF s # <<>> /\ s[Len(s)] = c THEN rstrip(SubSeq(s, 1, Len(s) - 1), c) ELSE s

\* the longest prefix of s made of characters of the set cs
RECURSIVE Span(_, _)
Span(s, cs) ==
    IF s # <<>> /\ s[1] \in cs THEN <<s[1]>> \o Span(Tail(s), cs) ELSE <<>>

\* re.search(p + "([a-zA-Z0-9_-]+)", s).group(1) for the leftmost match of a
\* prefix p of the set prefixes, or None
SearchId(s, prefixes) ==
    With({i \in 1..Len(s) : \E p \in prefixes :
             /\ i + Len(p) <= Len(s)
             /\ \A k \in 1..Len(p) : s[i + k - 1] = p[k]
             /\ s[i + Len(p)] \in IdChars}, LAMBDA hits :
    With(CHOOSE i \in hits : \A j \in hits : i <= j, LAMBDA at :
    With(CHOOSE p \in prefixes : /\ at + Len(p) <= Len(s)
                                 /\ \A k \in 1..Len(p) : s[at + k - 1] = p[k]
                                 /\ s[at + Len(p)] \in IdChars, LAMBDA p :
    IF hits = {} THEN NoText ELSE Span(Drop(s, at + Len(p)), IdChars))))

\* the characters with codes 32..126, in code order ("x60" is the backquote)
AsciiChars ==
    << " ", "!", "\"", "#", "$", "%", "&", "'", "(", ")", "*", "+",
       ",", "-", ".", "/", "0", "1", "2", "3", "4", "5", "6", "7",
       "8", "9", ":", ";", "<", "=", ">", "?", "@", "A", "B", "C",
       "D", "E", "F", "G", "H", "I", "J", "K", "L", "M", "N", "O",
       "P", "Q", "R", "S", "T", "U", "V", "W", "X", "Y", "Z", "[",
       "\\", "]", "^", "_", "x60", "a", "b", "c", "d", "e", "f", "g",
       "h", "i", "j", "k", "l", "m", "n", "o", "p", "q", "r", "s",
       "t", "u", "v", "w", "x", "y", "z", "{", "|", "}", "~" >>

HexDigits == <<"0", "1", "2", "3", "4", "5", "6", "7", "8", "9", "A", "B", "C", "D", "E", "F">>

\* ord(c) of an ASCII character
CodeOf(c) ==
    CASE c = "\t" -> 9 [] c = "\n" -> 10 [] c = "\r" -> 13 [] c = "x00" -> 0
      [] OTHER -> 31 + CHOOSE k \in 1..Len(AsciiChars) : AsciiChars[k] = c

\* chr(n); a code outside the characters above decodes to the replacement character
CharOf(n) ==
    CASE n = 9 -> "\t" [] n = 10 -> "\n" [] n = 13 -> "\r"
      [] n >= 32 /\ n <= 126 -> AsciiChars[n - 31]
      [] OTHER -> "U+FFFD"

\* value of a hexadecimal digit (-1 if c is none)
HexVal(c) ==
    IF c \in Digits THEN CodeOf(c) - 48
    ELSE IF c \in {"a", "b", "c", "d", "e", "f"} THEN CodeOf(c) - 87
    ELSE IF c \in {"A", "B", "C", "D", "E", "F"} THEN CodeOf(c) - 55
    ELSE 0 - 1

\* the percent escape of a character that urllib.parse.quote does not leave alone
PercentCode(c) ==
    IF c = "U+00E9" THEN <<"%", "C", "3", "%", "A", "9">>
    ELSE <<"%", HexDigits[(CodeOf(c) \div 16) + 1], HexDigits[(CodeOf(c) % 16) + 1]>>

\* urllib.parse.quote(s, safe="")
quote(s) ==
    LET RECURSIVE Q(_)
        Q(t) == IF t = <<>> THEN <<>>
                ELSE (IF t[1] \in IdChars \cup {".", "~"} THEN <<t[1]>> ELSE PercentCode(t[1]))
                     \o Q(Tail(t))
    IN  Q(s)

\* urllib.parse.quote_plus(s)
quote_plus(s) ==
    LET RECURSIVE Q(_)
        Q(t) == IF t = <<>> THEN <<>>
                ELSE (IF t[1] = " " THEN <<"+">>
                      ELSE IF t[1] \in IdChars \cup {".", "~"} THEN <<t[1]>>
                      ELSE PercentCode(t[1]))
                     \o Q(Tail(t))
    IN  Q(s)

-----------------------------------------------------------------------------
(* URL routing *)

PUBLIC_PROXY_URL == <<"h", "t", "t", "p", "s", ":", "/", "/", "g", "i", "t", "h", "u", "b", "-", "p", "r", "o", "x", "y", "-", "a", "u", "t", "h", ".", "t", "i", "g", "z", "i", "g", ".", "c", "o", "m">>

GITHUB_COM == <<"g", "i", "t", "h", "u", "b", ".", "c", "o", "m">>
RAW_GITHUB == <<"r", "a", "w", ".", "g", "i", "t", "h", "u", "b", "u", "s", "e", "r", "c", "o", "n", "t", "e", "n", "t", ".", "c", "o", "m">>
RELEASES == <<"/", "r", "e", "l", "e", "a", "s", "e", "s", "/">>
DRIVE_GOOGLE == <<"d", "r", "i", "v", "e", ".", "g", "o", "o", "g", "l", "e", ".", "c", "o", "m">>
DRIVE_USERCONTENT == <<"d", "r", "i", "v", "e", ".", "u", "s", "e", "r", "c", "o", "n", "t", "e", "n", "t", ".", "g", "o", "o", "g", "l", "e", ".", "c", "o", "m">>
DROPBOX_COM == <<"d", "r", "o", "p", "b", "o", "x", ".", "c", "o", "m">>

is_github_url(url) ==
    LET url_lower == lower(url)
    IN  contains(url_lower, GITHUB_COM) \/ contains(url_lower, RAW_GITHUB)

is_github_release_url(url) ==
    LET url_lower == lower(url)
    IN  contains(url_lower, GITHUB_COM) /\ contains(url_lower, RELEASES)

\* needs_proxy deciding as for a public URL whatever the private flag says
needs_proxy_IgnorePrivate(url, is_private) ==
    LET url_lower == lower(url)
    IN  IF contains(url_lower, GITHUB_COM) /\ contains(url_lower, RELEASES) THEN TRUE
        ELSE IF contains(url_lower, DRIVE_GOOGLE) \/ contains(url_lower, DRIVE_USERCONTENT) THEN TRUE
        ELSE contains(url_lower, DROPBOX_COM)

needs_proxy(url, is_private) ==
    LET url_lower == lower(url)
    IN  IF is_private THEN is_github_url(url_lower)
        ELSE IF contains(url_lower, GITHUB_COM) /\ contains(url_lower, RELEASES) THEN TRUE
        ELSE IF contains(url_lower, DRIVE_GOOGLE) \/ contains(url_lower, DRIVE_USERCONTENT) THEN TRUE
        ELSE IF contains(url_lower, DROPBOX_COM) THEN TRUE
        ELSE FALSE

PROXY_QUERY == <<"/", "?", "u", "r", "l", "=">>

\* build_public_proxy_url appending the URL as it is
build_public_proxy_url_Unencoded(url) == PUBLIC_PROXY_URL \o PROXY_QUERY \o url

build_public_proxy_url(url) == PUBLIC_PROXY_URL \o PROXY_QUERY \o quote(url)

build_private_proxy_url(url, auth_proxy_base) ==
    rstrip(auth_proxy_base, "/") \o PROXY_QUERY \o quote(url)

\* urllib.parse.unquote(s): every percent sign followed by two hexadecimal digits is decoded
unquote(s) ==
    LET esc(i) == /\ s[i] = "%"
                  /\ i + 2 <= Len(s)
                  /\ HexVal(s[i + 1]) >= 0
                  /\ HexVal(s[i + 2]) >= 0
        d == [i \in 1..Len(s) |->
                IF esc(i) THEN CharOf(16 * HexVal(s[i + 1]) + HexVal(s[i + 2]))
                ELSE IF (i > 1 /\ esc(i - 1)) \/ (i > 2 /\ esc(i - 2)) THEN ""
                ELSE s[i]]
    IN  SelectSeq(d, LAMBDA c : c # "")

\* s.replace(a, b) for single characters
replace(s, a, b) == [i \in 1..Len(s) |-> IF s[i] = a THEN b ELSE s[i]]

SchemeChars == LowerCase \cup UpperCase \cup Digits \cup {"+", "-", "."}

\* urllib.parse.urlparse(url): scheme, netloc, path, params, query, fragment;
\* raises is TRUE when urlsplit raises ValueError (unbalanced [ ] in the netloc)
urlparse(url0) ==
    With(SelectSeq(url0, LAMBDA c : c \notin {"\t", "\r", "\n"}), LAMBDA url1 :
    With(Find(url1, <<":">>, 1), LAMBDA colon :
    With(/\ colon > 1
         /\ url1[1] \in LowerCase \cup UpperCase
         /\ \A k \in 1..(colon - 1) : url1[k] \in SchemeChars, LAMBDA has_scheme :
    With(IF has_scheme THEN lower(SubSeq(url1, 1, colon - 1)) ELSE <<>>, LAMBDA scheme :
    With(IF has_scheme THEN Drop(url1, colon + 1) ELSE url1, LAMBDA url2 :
    With(Take(url2, 2) = <<"/", "/">>, LAMBDA has_netloc :
    With({i \in 3..Len(url2) : url2[i] \in {"/", "?", "#"}}, LAMBDA delims :
    With(IF delims = {} THEN Len(url2) + 1
         ELSE CHOOSE i \in delims : \A j \in delims : i <= j, LAMBDA delim :
    With(IF has_netloc THEN SubSeq(url2, 3, delim - 1) ELSE <<>>, LAMBDA netloc :
    With(IF has_netloc THEN Drop(url2, delim) ELSE url2, LAMBDA url3 :
    With(Find(url3, <<"#">>, 1), LAMBDA hash :
    With(IF hash > 0 THEN Drop(url3, hash + 1) ELSE <<>>, LAMBDA fragment :
    With(IF hash > 0 THEN SubSeq(url3, 1, hash - 1) ELSE url3, LAMBDA url4 :
    With(Find(url4, <<"?">>, 1), LAMBDA qmark :
    With(IF qmark > 0 THEN Drop(url4, qmark + 1) ELSE <<>>, LAMBDA query :
    With(IF qmark > 0 THEN SubSeq(url4, 1, qmark - 1) ELSE url4, LAMBDA url5 :
    With({i \in 1..Len(url5) : url5[i] = "/"}, LAMBDA slashes :
    With(IF slashes = {} THEN 1
         ELSE CHOOSE i \in slashes : \A j \in slashes : i >= j, LAMBDA last_slash :
    With(Find(url5, <<";">>, last_slash), LAMBDA semi :
        [ scheme |-> scheme,
          netloc |-> netloc,
          path |-> IF semi > 0 THEN SubSeq(url5, 1, semi - 1) ELSE url5,
          params |-> IF semi > 0 THEN Drop(url5, semi + 1) ELSE <<>>,
          query |-> query,
          fragment |-> fragment,
          raises |-> contains(netloc, <<"[">>) # contains(netloc, <<"]">>) ]
    )))))))))))))))))))

\* urllib.parse.urlunparse
urlunparse(scheme, netloc, path, params, query, fragment) ==
    With(IF params # <<>> THEN path \o <<";">> \o params ELSE path, LAMBDA url1 :
    With(IF netloc # <<>> \/ (scheme # <<>> /\ Take(url1, 2) # <<"/", "/">>)
         THEN <<"/", "/">> \o netloc
              \o (IF url1 # <<>> /\ url1[1] # "/" THEN <<"/">> ELSE <<>>) \o url1
         ELSE url1, LAMBDA url2 :
    With(IF scheme # <<>> THEN scheme \o <<":">> \o url2 ELSE url2, LAMBDA url3 :
    With(IF query # <<>> THEN url3 \o <<"?">> \o query ELSE url3, LAMBDA url4 :
    IF fragment # <<>> THEN url4 \o <<"#">> \o fragment ELSE url4))))

\* the (name, value) pairs urllib.parse.parse_qsl finds: fields without "=" or
\* with a blank value are dropped, "+" is a space, names and values are unquoted
parse_qsl(query) ==
    LET pair(f) == With(Find(f, <<"=">>, 1), LAMBDA eq :
                       IF eq = 0 \/ eq = Len(f) THEN <<>>
                       ELSE << [name |-> unquote(replace(SubSeq(f, 1, eq - 1), "+", " ")),
                                value |-> unquote(replace(Drop(f, eq + 1), "+", " "))] >>)
        RECURSIVE P(_)
        P(fs) == IF fs = <<>> THEN <<>> ELSE pair(fs[1]) \o P(Tail(fs))
    IN  P(Split(query, "&"))

\* urllib.parse.parse_qs(query): name -> list of values, names in order of first appearance
parse_qs(query) ==
    With(parse_qsl(query), LAMBDA pairs :
    LET first(i) == \A j \in 1..(i - 1) : pairs[j].name # pairs[i].name
        valuesOf(n) == With(SelectSeq(pairs, LAMBDA q : q.name = n), LAMBDA hits :
                           [k \in 1..Len(hits) |-> hits[k].value])
        RECURSIVE D(_)
        D(i) == IF i > Len(pairs) THEN <<>>
                ELSE (IF first(i) THEN << [name |-> pairs[i].name, values |-> valuesOf(pairs[i].name)] >>
                      ELSE <<>>) \o D(i + 1)
    IN  D(1))

\* name in query_params
HasParam(query_params, n) == \E i \in 1..Len(query_params) : query_params[i].name = n

\* query_params[name]
ParamValues(query_params, n) ==
    query_params[CHOOSE i \in 1..Len(query_params) : query_params[i].name = n].values

\* query_params[name] = [value] : an existing name keeps its place, a new one goes last
SetParam(query_params, n, v) ==
    IF HasParam(query_params, n)
    THEN [i \in 1..Len(query_params) |->
            IF query_params[i].name = n THEN [name |-> n, values |-> <<v>>] ELSE query_params[i]]
    ELSE Append(query_params, [name |-> n, values |-> <<v>>])

\* urllib.parse.urlencode(query_params, doseq=True)
urlencode(query_params) ==
    LET one(n, vs) == [k \in 1..Len(vs) |-> quote_plus(n) \o <<"=">> \o quote_plus(vs[k])]
        RECURSIVE E(_)
        E(ps) == IF ps = <<>> THEN <<>> ELSE one(ps[1].name, ps[1].values) \o E(Tail(ps))
    IN  Join(E(query_params), <<"&">>)

GDRIVE_DIRECT_PREFIX == <<"h", "t", "t", "p", "s", ":", "/", "/", "d", "r", "i", "v", "e", ".", "u", "s", "e", "r", "c", "o", "n", "t", "e", "n", "t", ".", "g", "o", "o", "g", "l", "e", ".", "c", "o", "m", "/", "d", "o", "w", "n", "l", "o", "a", "d", "?", "i", "d", "=">>
GDRIVE_DIRECT_SUFFIX == <<"&", "e", "x", "p", "o", "r", "t", "=", "d", "o", "w", "n", "l", "o", "a", "d", "&", "c", "o", "n", "f", "i", "r", "m", "=", "t">>
CONFIRM_T == <<"c", "o", "n", "f", "i", "r", "m", "=", "t">>
FILE_D == <<"/", "f", "i", "l", "e", "/", "d", "/">>
OPEN_ID == <<"/", "o", "p", "e", "n", "?", "i", "d", "=">>
Q_ID == <<"?", "i", "d", "=">>
AMP_ID == <<"&", "i", "d", "=">>

\* GDriveFileId with the generic id= form tried before the other two
GDriveFileId_IdFirst(url) ==
    With(SearchId(url, {FILE_D}), LAMBDA by_path :
    With(SearchId(url, {OPEN_ID}), LAMBDA by_open :
    With(SearchId(url, {Q_ID, AMP_ID}), LAMBDA by_id :
    IF by_id # NoText THEN by_id
    ELSE IF by_path # NoText THEN by_path
    ELSE by_open)))

\* the file id the three regular expressions find in turn, or None
GDriveFileId(url) ==
    With(SearchId(url, {FILE_D}), LAMBDA by_path :
    With(SearchId(url, {OPEN_ID}), LAMBDA by_open :
    With(SearchId(url, {Q_ID, AMP_ID}), LAMBDA by_id :
    IF by_path # NoText THEN by_path
    ELSE IF by_open # NoText THEN by_open
    ELSE by_id)))

\* convert_google_drive_url without the test for an already direct URL
convert_google_drive_url_NoDirectTest(url) ==
    With(lower(url), LAMBDA url_lower :
    With(GDriveFileId(url), LAMBDA file_id :
    IF ~contains(url_lower, DRIVE_GOOGLE) /\ ~contains(url_lower, DRIVE_USERCONTENT)
    THEN [url |-> url, rewritten |-> FALSE]
    ELSE IF file_id # NoText
    THEN [url |-> GDRIVE_DIRECT_PREFIX \o file_id \o GDRIVE_DIRECT_SUFFIX, rewritten |-> TRUE]
    ELSE [url |-> url, rewritten |-> FALSE]))

convert_google_drive_url(url) ==
    With(lower(url), LAMBDA url_lower :
    With(GDriveFileId(url), LAMBDA file_id :
    IF ~contains(url_lower, DRIVE_GOOGLE) /\ ~contains(url_lower, DRIVE_USERCONTENT)
    THEN [url |-> url, rewritten |-> FALSE]
    ELSE IF contains(url_lower, DRIVE_USERCONTENT) /\ contains(url_lower, CONFIRM_T)
    THEN [url |-> url, rewritten |-> FALSE]
    ELSE IF file_id # NoText
    THEN [url |-> GDRIVE_DIRECT_PREFIX \o file_id \o GDRIVE_DIRECT_SUFFIX, rewritten |-> TRUE]
    ELSE [url |-> url, rewritten |-> FALSE]))

HTTP == <<"h", "t", "t", "p">>

extract_gdrive_file_id(input_str0) ==
    With(strip(input_str0), LAMBDA input_str :
    IF contains(lower(input_str), HTTP) \/ contains(lower(input_str), DRIVE_GOOGLE)
    THEN GDriveFileId(input_str)
    ELSE IF input_str # <<>> /\ (\A i \in 1..Len(input_str) : input_str[i] \in IdChars)
            /\ Len(input_str) > 10
    THEN input_str
    ELSE NoText)

DL == <<"d", "l">>

\* convert_dropbox_url without the test for dl=1
convert_dropbox_url_NoDlTest(url) ==
    With(urlparse(url), LAMBDA parsed :
    With(parse_qs(parsed.query), LAMBDA query_params :
    With(urlencode(SetParam(query_params, DL, <<"1">>)), LAMBDA new_query :
    IF ~contains(lower(url), DROPBOX_COM) THEN [url |-> url, rewritten |-> FALSE, raises |-> FALSE]
    ELSE IF parsed.raises THEN [url |-> url, rewritten |-> FALSE, raises |-> TRUE]
    ELSE [url |-> urlunparse(parsed.scheme, parsed.netloc, parsed.path,
                             parsed.params, new_query, parsed.fragment),
          rewritten |-> TRUE, raises |-> FALSE])))

\* convert_dropbox_url; raises is TRUE when urlparse raises
convert_dropbox_url(url) ==
    With(urlparse(url), LAMBDA parsed :
    With(parse_qs(parsed.query), LAMBDA query_params :
    With(IF HasParam(query_params, DL) THEN ParamValues(query_params, DL)[1] ELSE <<"0">>, LAMBDA dl :
    With(urlencode(SetParam(query_params, DL, <<"1">>)), LAMBDA new_query :
    IF ~contains(lower(url), DROPBOX_COM) THEN [url |-> url, rewritten |-> FALSE, raises |-> FALSE]
    ELSE IF parsed.raises THEN [url |-> url, rewritten |-> FALSE, raises |-> TRUE]
    ELSE IF dl = <<"1">> THEN [url |-> url, rewritten |-> FALSE, raises |-> FALSE]
    ELSE [url |-> urlunparse(parsed.scheme, parsed.netloc, parsed.path,
                             parsed.params, new_query, parsed.fragment),
          rewritten |-> TRUE, raises |-> FALSE]))))

-----------------------------------------------------------------------------
(* File type detection from URL, path and header *)

FILETYPE == <<"f", "i", "l", "e", "t", "y", "p", "e">>

\* the values of the filetype parameter detect_file_type accepts
FileTypeWords ==
    { <<"p", "a", "r", "q", "u", "e", "t">>, <<"d", "u", "c", "k", "d", "b">>, <<"c", "s", "v">>, <<"t", "s", "v">>,
      <<"t", "x", "t">>, <<"p", "i", "p", "e">>, <<"p", "s", "v">>, <<"j", "s", "o", "n">> }

\* the Python string as a file type tag
TagOf(word) ==
    CASE word = <<"p", "a", "r", "q", "u", "e", "t">> -> "parquet"
      [] word = <<"d", "u", "c", "k", "d", "b">> -> "duckdb"
      [] word = <<"c", "s", "v">> -> "csv"
      [] word = <<"t", "s", "v">> -> "tsv"
      [] word = <<"t", "x", "t">> -> "txt"
      [] word = <<"p", "i", "p", "e">> -> "pipe"
      [] word = <<"p", "s", "v">> -> "psv"
      [] word = <<"j", "s", "o", "n">> -> "json"

\* detect_file_type_from_path that gives the psv extension a tag of its own
detect_file_type_from_path_PsvOwnTag(path) ==
    With(lower(path), LAMBDA path_lower :
        IF endswith(path_lower, <<".">> \o <<"p", "a", "r", "q", "u", "e", "t">>) THEN "parquet"
        ELSE IF endswith(path_lower, <<".">> \o <<"d", "u", "c", "k", "d", "b">>) THEN "duckdb"
        ELSE IF endswith(path_lower, <<".">> \o <<"c", "s", "v">>) THEN "csv"
        ELSE IF endswith(path_lower, <<".">> \o <<"t", "s", "v">>) THEN "tsv"
        ELSE IF endswith(path_lower, <<".">> \o <<"t", "x", "t">>) THEN "txt"
        ELSE IF endswith(path_lower, <<".">> \o <<"p", "i", "p", "e">>) THEN "pipe"
        ELSE IF endswith(path_lower, <<".">> \o <<"p", "s", "v">>) THEN "psv"
        ELSE IF endswith(path_lower, <<".">> \o <<"j", "s", "o", "n">>) THEN "json"
        ELSE None)

detect_file_type_from_path(path) ==
    With(lower(path), LAMBDA path_lower :
        IF endswith(path_lower, <<".">> \o <<"p", "a", "r", "q", "u", "e", "t">>) THEN "parquet"
        ELSE IF endswith(path_lower, <<".">> \o <<"d", "u", "c", "k", "d", "b">>) THEN "duckdb"
        ELSE IF endswith(path_lower, <<".">> \o <<"c", "s", "v">>) THEN "csv"
        ELSE IF endswith(path_lower, <<".">> \o <<"t", "s", "v">>) THEN "tsv"
        ELSE IF endswith(path_lower, <<".">> \o <<"t", "x", "t">>) THEN "txt"
        ELSE IF endswith(path_lower, <<".">> \o <<"p", "i", "p", "e">>) \/ endswith(path_lower, <<".">> \o <<"p", "s", "v">>) THEN "pipe"
        ELSE IF endswith(path_lower, <<".">> \o <<"j", "s", "o", "n">>) THEN "json"
        ELSE None)

\* detect_file_type with the path extension consulted before the filetype parameter
detect_file_type_PathFirst(url) ==
    With(urlparse(url), LAMBDA parsed :
    With(parse_qs(parsed.query), LAMBDA query_params :
    With(lower(ParamValues(query_params, FILETYPE)[1]), LAMBDA ft :
    With(lower(parsed.path), LAMBDA path_lower :
    With(Split(path_lower, "/"), LAMBDA segments :
    With(detect_file_type_from_path(segments[Len(segments)]), LAMBDA path_type :
    IF parsed.raises THEN "raises"
    ELSE IF contains(path_lower, <<".">>) /\ path_type # None THEN path_type
    ELSE IF HasParam(query_params, FILETYPE) /\ ft \in FileTypeWords THEN TagOf(ft)
    ELSE None))))))

\* the result of detect_file_type(url), or "raises" when urlparse raises
detect_file_type(url) ==
    With(urlparse(url), LAMBDA parsed :
    With(parse_qs(parsed.query), LAMBDA query_params :
    With(lower(ParamValues(query_params, FILETYPE)[1]), LAMBDA ft :
    With(lower(parsed.path), LAMBDA path_lower :
    With(Split(path_lower, "/"), LAMBDA segments :
    With(segments[Len(segments)], LAMBDA filename :
    IF parsed.raises THEN "raises"
    ELSE IF HasParam(query_params, FILETYPE) /\ ft \in FileTypeWords THEN TagOf(ft)
    ELSE IF contains(path_lower, <<".">>) THEN detect_file_type_from_path(filename)
    ELSE None))))))

FILENAME_QUOTED == <<"f", "i", "l", "e", "n", "a", "m", "e", "=", "\"">>
FILENAME_EQ == <<"f", "i", "l", "e", "n", "a", "m", "e", "=">>

\* get_filename_from_content_disposition
get_filename_from_content_disposition(header_value) ==
    With({i \in 1..Len(header_value) :
             /\ i + Len(FILENAME_QUOTED) <= Len(header_value)
             /\ SubSeq(header_value, i, i + Len(FILENAME_QUOTED) - 1) = FILENAME_QUOTED
             /\ header_value[i + Len(FILENAME_QUOTED)] # "\""
             /\ \E j \in (i + Len(FILENAME_QUOTED) + 1)..Len(header_value) : header_value[j] = "\""},
         LAMBDA quoted :
    With(CHOOSE i \in quoted : \A j \in quoted : i <= j, LAMBDA q :
    With({i \in 1..Len(header_value) :
             /\ i + Len(FILENAME_EQ) <= Len(header_value)
             /\ SubSeq(header_value, i, i + Len(FILENAME_EQ) - 1) = FILENAME_EQ
             /\ header_value[i + Len(FILENAME_EQ)] \notin Whitespace \cup {";"}},
         LAMBDA plain :
    With(CHOOSE i \in plain : \A j \in plain : i <= j, LAMBDA e :
    IF header_value = <<>> THEN NoText
    ELSE IF quoted # {} THEN SplitFirst(Drop(header_value, q + Len(FILENAME_QUOTED)), "\"")
    ELSE IF plain # {}
    THEN With(Drop(header_value, e + Len(FILENAME_EQ)), LAMBDA rest :
         With({i \in 1..Len(rest) : rest[i] \in Whitespace \cup {";"}}, LAMBDA stops :
         IF stops = {} THEN rest
         ELSE SubSeq(rest, 1, (CHOOSE i \in stops : \A j \in stops : i <= j) - 1)))
    ELSE NoText))))

detect_file_type_from_header(content_disposition) ==
    With(get_filename_from_content_disposition(content_disposition), LAMBDA filename :
    IF filename # NoText THEN detect_file_type_from_path(filename) ELSE None)

-----------------------------------------------------------------------------
(* Workbook cells, files and the last-import state *)

\* a cell value: empty, a number or a string
EmptyCell == [t |-> "empty"]
NumCell(n) == [t |-> "num", v |-> n]
StrCell(s) == [t |-> "str", v |-> s]

\* not value or not isinstance(value, str)
IsMissingStr(cell) == cell.t # "str" \/ cell.v = <<>>

\* contents of the DuckDB file the import routines build from a downloaded file
ConvertedDb == <<"converted">>

NoState == [saved |-> FALSE]

\* save_last_import_state: the record written to last_import_state.json
\* the cells a script writes: cell -> value written (None for a cell left alone)
NoWrites == [share_D5 |-> None, share_D8 |-> None, token_D5 |-> None, token_D6 |-> None, token_D7 |-> None]

\* the workbook cells after the writes of a script
Written(cells0, writes) == [c \in DOMAIN cells0 |-> IF writes[c] = None THEN cells0[c] ELSE writes[c]]

save_last_import_state(source_sheet, source_url, file_type, file_path) ==
    [saved |-> TRUE, source_sheet |-> source_sheet, source_url |-> source_url,
     file_type |-> file_type, file_path |-> file_path]

get_parquet_temp_path == "imported_data.parquet"
get_duckdb_temp_path == "imported_database.duckdb"
get_delimited_temp_path == "imported_data.csv"
get_json_temp_path == "imported_data.json"

TempPaths == {get_parquet_temp_path, get_duckdb_temp_path, get_delimited_temp_path, get_json_temp_path}

\* the four standard temp files removed at the start of an import
CleanedUp == [p \in TempPaths |-> NoText]

\* the Python string of a text
RECURSIVE Str(_)
Str(s) == IF s = <<>> THEN "" ELSE s[1] \o Str(Tail(s))

\* get_raw_temp_path: the temp directory joined with the file name the user gave
get_raw_temp_path(filename) == Str(filename)

\* the paths raw downloads are saved under
RawPaths == {"report.pdf", "README"}

\* no raw download in the temp directory
NoRawFiles == [p \in RawPaths |-> NoText]

\* temp_path chosen from the file type
TempPathOf(file_type) ==
    IF file_type = "parquet" THEN get_parquet_temp_path
    ELSE IF file_type = "duckdb" THEN get_duckdb_temp_path
    ELSE IF file_type = "json" THEN get_json_temp_path
    ELSE get_delimited_temp_path

\* no display routine called
NoDisplay == [routine |-> None, delimiter |-> None, file_type |-> None]

\* the display routine the import scripts dispatch to
DisplayOf(file_type) ==
    IF file_type = "parquet" THEN "display_parquet_schema"
    ELSE IF file_type = "duckdb" THEN "display_duckdb_schema"
    ELSE IF file_type = "json" THEN "display_json_schema"
    ELSE "display_delimited_schema"

\* the temp files after the display routine ran; imported says whether its
\* DuckDB import step succeeded
FilesAfterDisplay(files, file_type, imported) ==
    IF file_type = "parquet" THEN files
    ELSE IF file_type = "duckdb"
    THEN IF contains(Take(files[get_duckdb_temp_path], SQLITE_SCAN_LEN), SQLITE_MAGIC) /\ imported
         THEN [files EXCEPT ![get_duckdb_temp_path] = ConvertedDb]
         ELSE files
    ELSE IF imported
    THEN [files EXCEPT ![TempPathOf(file_type)] = NoText, ![get_duckdb_temp_path] = ConvertedDb]
    ELSE [files EXCEPT ![get_duckdb_temp_path] = ConvertedDb]

-----------------------------------------------------------------------------
(* import_via_sharelink *)

ONE == <<"1">>
TOKEN_PREFIX == <<"t", "o", "k", "e", "n", " ">>

\* an import that stops only for an HTML page
Aborts_HtmlOnly(file_type) == file_type = "html_error"

\* file_type == 'html_error', or not file_type: the import stops before it writes
Aborts(file_type) == file_type = "html_error" \/ file_type = None

MSG_DOWNLOAD_FAILED == "ERROR: Download failed. Private link? Use TOKEN_ACCESS"
MSG_HTML == "ERROR: Private link? Use TOKEN_ACCESS with credentials"
MSG_INVALID_FILE == "ERROR: Invalid file. Private link? Use TOKEN_ACCESS"
MSG_PROCESSING_FAILED == "ERROR: File processing failed. Private link? Use TOKEN_ACCESS"

\* the delimiter a delimited file type announces (expected_delimiter_map)
ExpectedDelimiter(file_type) ==
    CASE file_type = "csv" -> "," [] file_type = "tsv" -> "\t" [] file_type = "pipe" -> "|"
      [] OTHER -> None

\* the locals of import_via_sharelink up to the fetch: everything the script
\* computes from the cells and the environment.  stage names the early return
\* taken ("fetch" when the script goes on to download).
SharelinkPlan(in) ==
    With(IF "SHARE_LINK_ACCESS" \in in.sheets THEN "SHARE_LINK_ACCESS"
         ELSE IF "MASTER" \in in.sheets THEN "MASTER" ELSE None, LAMBDA sheet_name :
    With(strip(in.B5.v), LAMBDA url0 :
    With(CASE in.B12.t = "num" -> in.B12.v = 1
           [] in.B12.t = "str" -> strip(in.B12.v) = ONE
           [] OTHER -> FALSE, LAMBDA is_private :
    With(IsMissingStr(in.B17) \/ strip(in.B17.v) = <<>>, LAMBDA no_base :
    With(IF is_private /\ ~no_base THEN strip(in.B17.v) ELSE NoText, LAMBDA auth_proxy_url :
    With(IF is_private THEN in.env_pat ELSE NoText, LAMBDA github_pat :
    With(convert_google_drive_url(url0), LAMBDA gd :
    With(convert_dropbox_url(gd.url), LAMBDA db :
    With(db.url, LAMBDA data_url :
    With(needs_proxy(data_url, is_private), LAMBDA use_proxy :
    With(detect_file_type(data_url), LAMBDA file_type :
    With(is_private /\ is_github_url(data_url), LAMBDA private_github :
    With([sheet_name |-> sheet_name, is_private |-> is_private], LAMBDA base :
        IF sheet_name = None THEN [stage |-> "no_sheet"]
        ELSE IF IsMissingStr(in.B5) THEN [stage |-> "no_url", sheet_name |-> sheet_name]
        ELSE IF is_private /\ no_base THEN [stage |-> "no_proxy_base"] @@ base
        ELSE IF is_private /\ (github_pat = NoText \/ github_pat = <<>>) THEN [stage |-> "no_pat"] @@ base
        ELSE IF db.raises \/ file_type = "raises" THEN [stage |-> "raised"] @@ base
        ELSE [ stage |-> "fetch",
               data_url |-> data_url,
               use_proxy |-> use_proxy,
               url_type |-> file_type,
               fetch_url |-> IF private_github THEN build_private_proxy_url(data_url, auth_proxy_url)
                             ELSE IF use_proxy THEN build_public_proxy_url(data_url)
                             ELSE data_url,
               fetch_headers |-> IF private_github
                                 THEN [Authorization |-> TOKEN_PREFIX \o github_pat]
                                 ELSE [Authorization |-> NoText] ] @@ base
    )))))))))))))

\* the file type import_via_sharelink would settle on if it sniffed the bytes first
SharelinkClassify_BytesFirst(url_type, response) ==
    With(detect_file_type_from_header(response.content_disposition), LAMBDA header_type :
    With(detect_file_type_from_bytes(response.bytes), LAMBDA bytes_type :
        IF bytes_type # None THEN [file_type |-> bytes_type, steps |-> <<"bytes">>]
        ELSE IF url_type # None THEN [file_type |-> url_type, steps |-> <<"bytes", "url">>]
        ELSE [file_type |-> header_type, steps |-> <<"bytes", "url", "header">>]))

\* the file type import_via_sharelink settles on after the download, with the
\* classification steps it ran
SharelinkClassify(url_type, response) ==
    With(detect_file_type_from_header(response.content_disposition), LAMBDA header_type :
    With(detect_file_type_from_bytes(response.bytes), LAMBDA bytes_type :
        IF url_type # None THEN [file_type |-> url_type, steps |-> <<"url">>]
        ELSE IF header_type # None THEN [file_type |-> header_type, steps |-> <<"url", "header">>]
        ELSE [file_type |-> bytes_type, steps |-> <<"url", "header", "bytes">>]))

\* import_via_sharelink as a whole: the temp files it leaves, the last-import
\* state it saves (NoState when it saves none), the cells it writes and its locals
import_via_sharelink(in) ==
    With(SharelinkPlan(in), LAMBDA plan :
    With(in.response, LAMBDA response :
    With(SharelinkClassify(plan.url_type, response), LAMBDA cls :
    With(cls.file_type, LAMBDA file_type :
    With(IF file_type \in {"csv", "tsv", "txt", "pipe"}
         THEN detect_delimiter_from_content(response.bytes) ELSE None, LAMBDA delimiter :
    With(TempPathOf(file_type), LAMBDA temp_path :
    With([CleanedUp EXCEPT ![temp_path] = response.bytes], LAMBDA written :
    With([url |-> plan.fetch_url, headers |-> plan.fetch_headers], LAMBDA request :
    LET aborted(outcome, msg, more) ==
            [ temp_files |-> CleanedUp,
              last_state |-> NoState,
              writes |-> IF msg = None THEN NoWrites ELSE [NoWrites EXCEPT !.share_D5 = msg],
              run |-> more @@ [script |-> "import_via_sharelink", in |-> in, outcome |-> outcome,
                               requests |-> <<>>, wrote |-> None, saved |-> FALSE,
                               display |-> NoDisplay] @@ plan ]
    IN  IF plan.stage # "fetch" THEN aborted(plan.stage, None, [file_type |-> None])
        ELSE IF response.kind = "raises"
        THEN aborted("download_raised", MSG_DOWNLOAD_FAILED, [requests |-> <<request>>, file_type |-> None])
        ELSE IF ~response.ok
        THEN aborted("download_failed", MSG_DOWNLOAD_FAILED, [requests |-> <<request>>, file_type |-> None])
        ELSE IF Aborts(file_type) /\ file_type = "html_error"
        THEN aborted("html_error", MSG_HTML, [requests |-> <<request>>] @@ cls)
        ELSE IF Aborts(file_type)
        THEN aborted("unknown_type", MSG_INVALID_FILE, [requests |-> <<request>>] @@ cls)
        ELSE [ temp_files |-> FilesAfterDisplay(written, file_type, in.display_ok),
               last_state |-> save_last_import_state(plan.sheet_name, plan.data_url, file_type, temp_path),
               writes |-> IF in.display_ok THEN NoWrites
                          ELSE [NoWrites EXCEPT !.share_D5 = MSG_PROCESSING_FAILED],
               run |-> [ script |-> "import_via_sharelink", in |-> in,
                         outcome |-> IF in.display_ok THEN "imported" ELSE "processing_failed",
                         requests |-> <<request>>,
                         delimiter |-> delimiter,
                         expected_delimiter |-> ExpectedDelimiter(file_type),
                         wrote |-> temp_path, saved |-> TRUE,
                         display |-> [routine |-> DisplayOf(file_type), delimiter |-> delimiter,
                                      file_type |-> file_type] ] @@ cls @@ plan ]
    ))))))))

-----------------------------------------------------------------------------
(* OAuth token exchange *)

DROPBOX_TOKEN_URL == <<"h", "t", "t", "p", "s", ":", "/", "/", "a", "p", "i", ".", "d", "r", "o", "p", "b", "o", "x", ".", "c", "o", "m", "/", "o", "a", "u", "t", "h", "2", "/", "t", "o", "k", "e", "n">>
GDRIVE_TOKEN_URL == <<"h", "t", "t", "p", "s", ":", "/", "/", "o", "a", "u", "t", "h", "2", ".", "g", "o", "o", "g", "l", "e", "a", "p", "i", "s", ".", "c", "o", "m", "/", "t", "o", "k", "e", "n">>
BEARER_PREFIX == <<"B", "e", "a", "r", "e", "r", " ">>

\* get_dropbox_token / get_gdrive_token: the cached token is returned when there
\* is one; otherwise the credentials are read from the environment and exchanged
\* at token_url, and the token obtained is cached.
\* error is None, "ValueError" or "Exception" (the fetch itself raised).
GetToken_AlwaysExchange(cached, env_ok, token_url, token_response) ==
    LET request == [url |-> token_url, method |-> "POST", headers |-> [Authorization |-> NoText]]
    IN  IF ~env_ok
        THEN [error |-> "ValueError", token |-> NoText, cached |-> cached, requests |-> <<>>]
        ELSE IF token_response.kind = "raises"
        THEN [error |-> "Exception", token |-> NoText, cached |-> cached, requests |-> <<request>>]
        ELSE IF ~token_response.ok
        THEN [error |-> "ValueError", token |-> NoText, cached |-> cached, requests |-> <<request>>]
        ELSE [error |-> None, token |-> token_response.access_token,
              cached |-> token_response.access_token, requests |-> <<request>>]

GetToken(cached, env_ok, token_url, token_response) ==
    LET request == [url |-> token_url, method |-> "POST", headers |-> [Authorization |-> NoText]]
    IN  IF cached # NoText
        THEN [error |-> None, token |-> cached, cached |-> cached, requests |-> <<>>]
        ELSE IF ~env_ok
        THEN [error |-> "ValueError", token |-> NoText, cached |-> cached, requests |-> <<>>]
        ELSE IF token_response.kind = "raises"
        THEN [error |-> "Exception", token |-> NoText, cached |-> cached, requests |-> <<request>>]
        ELSE IF ~token_response.ok
        THEN [error |-> "ValueError", token |-> NoText, cached |-> cached, requests |-> <<request>>]
        ELSE [error |-> None, token |-> token_response.access_token,
              cached |-> token_response.access_token, requests |-> <<request>>]

get_dropbox_token(cached, in) == GetToken(cached, in.env_dropbox, DROPBOX_TOKEN_URL, in.token_response)

get_gdrive_token(cached, in) == GetToken(cached, in.env_gdrive, GDRIVE_TOKEN_URL, in.token_response)

-----------------------------------------------------------------------------
(* import_via_token *)

DROPBOX == <<"D", "r", "o", "p", "b", "o", "x">>
GOOGLE_DRIVE == <<"G", "o", "o", "g", "l", "e", " ", "D", "r", "i", "v", "e">>
GITHUB == <<"G", "i", "t", "H", "u", "b">>
valid_providers == {DROPBOX, GOOGLE_DRIVE, GITHUB}

DROPBOX_DOWNLOAD_URL == <<"h", "t", "t", "p", "s", ":", "/", "/", "c", "o", "n", "t", "e", "n", "t", ".", "d", "r", "o", "p", "b", "o", "x", "a", "p", "i", ".", "c", "o", "m", "/", "2", "/", "f", "i", "l", "e", "s", "/", "d", "o", "w", "n", "l", "o", "a", "d">>
GDRIVE_FILES_URL == <<"h", "t", "t", "p", "s", ":", "/", "/", "w", "w", "w", ".", "g", "o", "o", "g", "l", "e", "a", "p", "i", "s", ".", "c", "o", "m", "/", "d", "r", "i", "v", "e", "/", "v", "3", "/", "f", "i", "l", "e", "s", "/">>
ALT_MEDIA == <<"?", "a", "l", "t", "=", "m", "e", "d", "i", "a">>

MSG_SELECT_PROVIDER == "ERROR: Select a provider from dropdown"
MSG_MUST_BE == "ERROR: Must be Dropbox, Google Drive, GitHub"
MSG_ENTER_FILE == "ERROR: Enter file path or ID"
MSG_DROPBOX_PATH == "ERROR: Dropbox paths must start with / (e.g., /folder/file.ext)"
MSG_GDRIVE_INPUT == "ERROR: Invalid Google Drive input. Provide a file ID or URL"
MSG_GITHUB_URL == "ERROR: GitHub requires full URL (e.g., https://github.com/...)"
MSG_DROPBOX_CREDENTIALS == "ERROR: Check Dropbox credentials"
MSG_GDRIVE_CREDENTIALS == "ERROR: Check Google Drive credentials"
MSG_PAT_NOT_SET == "ERROR: GITHUB.PAT not set"
MSG_PROXY_REQUIRED == "ERROR: Auth Proxy URL required in B7"
MSG_DOWNLOAD_STATUS == "ERROR: Download failed (status)"
MSG_EXCEPTION == "ERROR: exception text"
MSG_TOKEN_HTML == "ERROR: Private link? Check credentials"
MSG_NO_TYPE == "ERROR: Could not detect file type"

\* the locals of import_via_token up to the download: provider, file_input and
\* auth_proxy_url as read from TOKEN_ACCESS, with the early return taken
TokenConfig(in) ==
    With(strip(in.B5.v), LAMBDA provider :
    With(strip(in.B6.v), LAMBDA input0 :
    With(extract_gdrive_file_id(input0), LAMBDA extracted_id :
    With(IF provider = GOOGLE_DRIVE /\ extracted_id # NoText THEN extracted_id ELSE input0,
         LAMBDA file_input :
    With(IF provider = DROPBOX /\ ~startswith(input0, <<"/">>) THEN MSG_DROPBOX_PATH
         ELSE IF provider = GOOGLE_DRIVE /\ extracted_id = NoText THEN MSG_GDRIVE_INPUT
         ELSE IF provider = GITHUB /\ ~startswith(lower(input0), HTTP) THEN MSG_GITHUB_URL
         ELSE None, LAMBDA validation_error :
    With(IF provider = GITHUB /\ in.B7.t = "str" THEN strip(in.B7.v) ELSE NoText,
         LAMBDA auth_proxy_url :
    \* a number in B7 is kept as it is: it is no str, and it is truthy unless zero
    With(provider = GITHUB /\ in.B7.t = "num" /\ in.B7.v # 0, LAMBDA proxy_is_number :
    With([provider |-> provider, file_input |-> file_input], LAMBDA base :
        IF ~in.has_sheet THEN [stage |-> "no_sheet", msg |-> None, cell |-> None]
        ELSE IF IsMissingStr(in.B5) THEN [stage |-> "no_provider", msg |-> MSG_SELECT_PROVIDER, cell |-> "token_D5"]
        ELSE IF provider \notin valid_providers
        THEN [stage |-> "bad_provider", msg |-> MSG_MUST_BE, cell |-> "token_D5"]
        ELSE IF IsMissingStr(in.B6) THEN [stage |-> "no_file", msg |-> MSG_ENTER_FILE, cell |-> "token_D6"]
        ELSE IF validation_error # None
        THEN [stage |-> "invalid_input", msg |-> validation_error, cell |-> "token_D6"] @@ base
        ELSE [stage |-> "download", auth_proxy_url |-> auth_proxy_url,
              proxy_is_number |-> proxy_is_number] @@ base
    ))))))))

\* the download step of import_via_token: the requests made, the token caches
\* afterwards and either the error written to D6 or the bytes received
TokenDownload(cfg, in, tokens) ==
    With(get_dropbox_token(tokens.dropbox, in), LAMBDA db :
    With(get_gdrive_token(tokens.gdrive, in), LAMBDA gd :
    With(cfg.auth_proxy_url # NoText /\ cfg.auth_proxy_url # <<>>, LAMBDA has_proxy :
    LET fetch(request, before, toks) ==
            [ tokens |-> toks, requests |-> before \o <<request>>,
              error |-> IF in.response.kind = "raises" THEN MSG_EXCEPTION
                        ELSE IF ~in.response.ok THEN MSG_DOWNLOAD_STATUS ELSE None ]
        failed(msg, before, toks) == [tokens |-> toks, requests |-> before, error |-> msg]
    IN  IF cfg.provider = DROPBOX
        THEN IF db.error = "ValueError" THEN failed(MSG_DROPBOX_CREDENTIALS, db.requests, tokens)
             ELSE IF db.error = "Exception" THEN failed(MSG_EXCEPTION, db.requests, tokens)
             ELSE fetch([url |-> DROPBOX_DOWNLOAD_URL, method |-> "POST",
                         headers |-> [Authorization |-> BEARER_PREFIX \o db.token, path |-> cfg.file_input]],
                        db.requests, [tokens EXCEPT !.dropbox = db.cached])
        ELSE IF cfg.provider = GOOGLE_DRIVE
        THEN IF gd.error = "ValueError" THEN failed(MSG_GDRIVE_CREDENTIALS, gd.requests, tokens)
             ELSE IF gd.error = "Exception" THEN failed(MSG_EXCEPTION, gd.requests, tokens)
             ELSE fetch([url |-> GDRIVE_FILES_URL \o cfg.file_input \o ALT_MEDIA, method |-> "GET",
                         headers |-> [Authorization |-> BEARER_PREFIX \o gd.token]],
                        gd.requests, [tokens EXCEPT !.gdrive = gd.cached])
        ELSE IF in.env_pat = NoText \/ in.env_pat = <<>> THEN failed(MSG_PAT_NOT_SET, <<>>, tokens)
        ELSE IF cfg.proxy_is_number THEN failed(MSG_EXCEPTION, <<>>, tokens)
        ELSE IF ~has_proxy /\ is_github_release_url(cfg.file_input) THEN failed(MSG_PROXY_REQUIRED, <<>>, tokens)
        ELSE fetch([url |-> IF has_proxy THEN build_private_proxy_url(cfg.file_input, cfg.auth_proxy_url)
                            ELSE cfg.file_input,
                    method |-> "GET",
                    headers |-> [Authorization |-> TOKEN_PREFIX \o in.env_pat]],
                   <<>>, tokens)
    )))

\* the file type import_via_token settles on, with the classification steps it ran
TokenClassify(file_input, response) ==
    With(detect_file_type_from_path(file_input), LAMBDA path_type :
    IF path_type # None THEN [file_type |-> path_type, steps |-> <<"path">>]
    ELSE [file_type |-> detect_file_type_from_bytes(response.bytes), steps |-> <<"path", "bytes">>])

\* import_via_token as a whole, run with the token caches as they are in tokens:
\* the temp files it leaves, the last-import state it saves (NoState when it saves
\* none), the cells it writes, the token caches afterwards and its locals
import_via_token(in, tokens) ==
    With(TokenConfig(in), LAMBDA cfg :
    With(TokenDownload(cfg, in, tokens), LAMBDA dl :
    With([NoWrites EXCEPT !.token_D5 = "", !.token_D6 = "", !.token_D7 = ""], LAMBDA cleared :
    With(TokenClassify(cfg.file_input, in.response), LAMBDA cls :
    With(cls.file_type, LAMBDA file_type :
    With(IF file_type \in {"csv", "tsv", "txt", "pipe"}
         THEN detect_delimiter_from_content(in.response.bytes) ELSE None, LAMBDA delimiter :
    With(TempPathOf(file_type), LAMBDA temp_path :
    With([CleanedUp EXCEPT ![temp_path] = in.response.bytes], LAMBDA written :
    LET aborted(outcome, writes, toks, more) ==
            [ temp_files |-> CleanedUp, last_state |-> NoState, writes |-> writes,
              tokens_before |-> tokens, tokens |-> toks,
              run |-> more @@ [script |-> "import_via_token", in |-> in, outcome |-> outcome,
                               requests |-> <<>>, wrote |-> None, saved |-> FALSE,
                               display |-> NoDisplay, file_type |-> None] @@ cfg ]
    IN  IF cfg.stage # "download"
        THEN aborted(cfg.stage,
                     IF cfg.cell = None THEN NoWrites
                     ELSE IF cfg.cell = "token_D5" THEN [NoWrites EXCEPT !.token_D5 = cfg.msg]
                     ELSE [cleared EXCEPT !.token_D6 = cfg.msg],
                     tokens, [stage |-> cfg.stage])
        ELSE IF dl.error # None
        THEN aborted("download_failed", [cleared EXCEPT !.token_D6 = dl.error], dl.tokens,
                     [requests |-> dl.requests])
        ELSE IF Aborts(file_type) /\ file_type = "html_error"
        THEN aborted("html_error", [cleared EXCEPT !.token_D6 = MSG_TOKEN_HTML], dl.tokens,
                     [requests |-> dl.requests] @@ cls)
        ELSE IF Aborts(file_type)
        THEN aborted("unknown_type", [cleared EXCEPT !.token_D6 = MSG_NO_TYPE], dl.tokens,
                     [requests |-> dl.requests] @@ cls)
        ELSE [ temp_files |-> FilesAfterDisplay(written, file_type, in.display_ok),
               last_state |-> save_last_import_state("TOKEN_ACCESS", cfg.file_input, file_type, temp_path),
               writes |-> cleared,
               tokens_before |-> tokens,
               tokens |-> dl.tokens,
               run |-> [ script |-> "import_via_token", in |-> in,
                         outcome |-> IF in.display_ok THEN "imported" ELSE "processing_failed",
                         requests |-> dl.requests,
                         delimiter |-> delimiter,
                         wrote |-> temp_path, saved |-> TRUE,
                         display |-> [routine |-> DisplayOf(file_type), delimiter |-> delimiter,
                                      file_type |-> file_type] ] @@ cls @@ cfg ]
    ))))))))

-----------------------------------------------------------------------------
(* Byte buffers handed to the classifier *)

\* n copies of the byte c
Fill(c, n) == [i \in 1..n |-> c]

Pads == (0 - MaxPad)..MaxPad

BufferHeads ==
    { <<>>, PAR1, DUCK,
      <<" ", " ", "<", "H", "T", "M", "L", ">">>,
      <<"<", "!", "D", "o", "c", "T", "y", "p", "e", " ", "h", "t", "m", "l", ">">>,
      <<"<", "xFF", "h", "t", "m", "l", ">">>,
      <<"{">>, <<" ", "[">>,
      <<"x">> \o SQLITE_MAGIC, <<"x", "x">> \o SQLITE_MAGIC,
      <<"xFF">>, <<"xC3", "xA9">> }
    \cup { Fill("a", DUCK_SCAN_LEN - Len(DUCK) + d) \o DUCK : d \in 0..MaxPad }

BufferLines ==
    { <<>>,
      <<"a", ",", "b", ",", "c", "\n", "1", ",", "2", ",", "3", "\n">>,
      <<"a", ",", "b", "\n", "1", ",", "2", "\n">>,
      <<"a", "|", "b", "|", "c", ",", "d", ",", "e", "\n">>,
      <<"a", "|", "b", ",", "c", ",", "d", "\n">>,
      <<"a", "\t", "b", "\t", "c", ",", "d", "\n">>,
      <<"a", ",", "b", "\r", "c", ",", "d", ",", "e", "\n">>,
      <<"\n", "a", "|", "b", "|", "c", "\n">> }

BufferFills == {"a", " ", "x00"}

BufferTails == { <<>>, PAR1, HTML_TAG, <<"xC3", "xA9">> }

\* total lengths the buffers are filled up to: around the minimum length and
\* the two HTML windows of the classifier, plus the 100-byte buffer of the
\* parquet test
BufferLengths ==
    {0, 100} \cup { c + d : c \in {MIN_SNIFF_LEN, HTML_SCAN_LEN, HTML_SAMPLE_LEN}, d \in Pads }

\* total lengths around the end of the text sample, and the first lines tried
\* with them
LongBufferLengths == { TEXT_SAMPLE_LEN + d : d \in Pads }

LongBufferLines ==
    { <<>>, <<"a", "|", "b", "|", "c", ",", "d", ",", "e", "\n">> }

BuildBuffer(head, line, fill, tail, total) ==
    head \o line \o Fill(fill, Max(0, total - Len(head) - Len(line) - Len(tail))) \o tail

\* the buffer of end-to-end scenario D, and the same rows followed by two more
ScenarioD == <<"a", ",", "b", ",", "c", "\n", "1", ",", "2", ",", "3", "\n">>
ScenarioD4Rows == <<"a", ",", "b", ",", "c", "\n", "1", ",", "2", ",", "3", "\n", "4", ",", "5", ",", "6", "\n", "7", ",", "8", ",", "9", "\n">>

Buffers ==
    { BuildBuffer(h, l, f, t, n) :
        h \in BufferHeads, l \in BufferLines, f \in BufferFills,
        t \in BufferTails, n \in BufferLengths }
    \cup { BuildBuffer(h, l, f, t, n) :
             h \in BufferHeads, l \in LongBufferLines, f \in BufferFills,
             t \in BufferTails, n \in LongBufferLengths }
    \cup { ScenarioD, ScenarioD4Rows }

-----------------------------------------------------------------------------
(* State *)

NoCall == [fn |-> "none", arg |-> None, pc |-> "idle", ret |-> None]
NoRun == [script |-> "none"]

\* remote modules run_stats loads
ModuleNames == {"imdb_stats", "cricket_stats"}

\* no globals dictionary
NoModule == [name |-> None, file |-> None, code |-> None]

\* _loaded_modules = {}
NoModules == [m \in ModuleNames |-> NoModule]

InitSession ==
    /\ temp_files = CleanedUp
    /\ raw_files = NoRawFiles
    /\ last_state = NoState
    /\ cells = [share_D5 |-> "", share_D8 |-> "", token_D5 |-> "", token_D6 |-> "", token_D7 |-> ""]
    /\ run = NoRun
    /\ _dropbox_token = NoText
    /\ _gdrive_token = NoText
    /\ _loaded_modules = NoModules
    /\ runs = 0

sessionVars == <<temp_files, raw_files, last_state, cells, run, _dropbox_token, _gdrive_token,
                 _loaded_modules, runs>>

-----------------------------------------------------------------------------
(* import_raw_sharelink: download of any file under a name the user gives *)

MSG_RAW_ENTER_URL == "ERROR: Enter URL in B5"
MSG_RAW_MODE == "ERROR: Set B7=1 for raw mode"
MSG_RAW_FILENAME == "ERROR: Enter filename in B8 (e.g., file.pdf)"
MSG_RAW_SAVE_FAILED == "ERROR: Save failed - exception text"

\* s.rsplit('.', 1) : the text before the last dot and the text after it
RSplitDot(s) ==
    With(CHOOSE i \in 1..Len(s) : s[i] = "." /\ \A j \in (i + 1)..Len(s) : s[j] # ".", LAMBDA dot :
        <<SubSeq(s, 1, dot - 1), Drop(s, dot + 1)>>)

\* the output file name with its extension in lower case
NormalizedFilename(cell_value) ==
    With(strip(cell_value), LAMBDA output_filename :
        IF contains(output_filename, <<".">>)
        THEN RSplitDot(output_filename)[1] \o <<".">> \o lower(RSplitDot(output_filename)[2])
        ELSE output_filename)

\* file_ext: the extension recorded as the file type of a raw download
FileExt(output_filename) ==
    IF contains(output_filename, <<".">>) THEN Str(lower(RSplitDot(output_filename)[2])) ELSE "unknown"

\* the raw mode flag read from a cell
IsRawMode(raw_flag) ==
    CASE raw_flag.t = "num" -> raw_flag.v = 1
      [] raw_flag.t = "str" -> strip(raw_flag.v) = ONE
      [] OTHER -> FALSE

\* Body applied to the value of e, which is computed before Body is entered
Once(e, Body(_)) == CHOOSE r \in { Body(x) : x \in {e} } : TRUE

\* the request import_raw_sharelink makes for a rewritten URL: the script passes
\* is_private=False to needs_proxy and sends no headers
RawRequest(data_url) ==
    [ data_url |-> data_url,
      use_proxy |-> needs_proxy(data_url, FALSE),
      url |-> IF needs_proxy(data_url, FALSE) THEN build_public_proxy_url(data_url) ELSE data_url,
      headers |-> [Authorization |-> NoText] ]

\* import_raw_sharelink as a whole: the file it saves, the last-import state
\* it saves (NoState when it saves none), the cells it writes and its locals
import_raw_sharelink(in) ==
    With(IF "SHARE_LINK_ACCESS" \in in.sheets THEN "SHARE_LINK_ACCESS"
         ELSE IF "MASTER" \in in.sheets THEN "MASTER" ELSE None, LAMBDA sheet_name :
    With(NormalizedFilename(in.B8.v), LAMBDA output_filename :
    With(get_raw_temp_path(output_filename), LAMBDA temp_path :
    LET stopped(outcome, msg, requests) ==
            [ saved_file |-> [path |-> None, bytes |-> NoText],
              last_state |-> NoState,
              writes |-> IF msg = None THEN NoWrites ELSE [NoWrites EXCEPT !.share_D8 = msg],
              run |-> [script |-> "import_raw_sharelink", in |-> in, outcome |-> outcome,
                       sheet_name |-> sheet_name, is_private |-> FALSE,
                       requests |-> requests, wrote |-> None, saved |-> FALSE] ]
    IN  IF sheet_name = None THEN stopped("no_sheet", None, <<>>)
        ELSE IF IsMissingStr(in.B5) THEN stopped("no_url", MSG_RAW_ENTER_URL, <<>>)
        ELSE IF ~IsRawMode(in.B7) THEN stopped("not_raw_mode", MSG_RAW_MODE, <<>>)
        ELSE IF IsMissingStr(in.B8) THEN stopped("no_filename", MSG_RAW_FILENAME, <<>>)
        ELSE Once(convert_dropbox_url(convert_google_drive_url(strip(in.B5.v)).url), LAMBDA db :
        IF db.raises THEN stopped("raised", "", <<>>)
        ELSE Once(RawRequest(db.url), LAMBDA req :
        Once([url |-> req.url, headers |-> req.headers], LAMBDA request :
        IF in.response.kind = "raises" THEN stopped("download_raised", MSG_EXCEPTION, <<request>>)
        ELSE IF ~in.response.ok THEN stopped("download_failed", MSG_DOWNLOAD_STATUS, <<request>>)
        ELSE IF output_filename = <<>> THEN stopped("save_failed", MSG_RAW_SAVE_FAILED, <<request>>)
        ELSE [ saved_file |-> [path |-> temp_path, bytes |-> in.response.bytes],
               last_state |-> save_last_import_state(sheet_name, req.data_url,
                                                     FileExt(output_filename), temp_path),
               writes |-> [NoWrites EXCEPT !.share_D8 = "Saved: " \o temp_path],
               run |-> [script |-> "import_raw_sharelink", in |-> in, outcome |-> "saved",
                        sheet_name |-> sheet_name, is_private |-> FALSE,
                        data_url |-> req.data_url, use_proxy |-> req.use_proxy,
                        fetch_url |-> req.url, fetch_headers |-> req.headers,
                        requests |-> <<request>>, wrote |-> temp_path, saved |-> TRUE] ]
        )))
    )))

-----------------------------------------------------------------------------
(* Inputs of the import scripts: cells, environment, server responses *)

URL_CSV == <<"h", "t", "t", "p", "s", ":", "/", "/", "e", "x", "a", "m", "p", "l", "e", ".", "c", "o", "m", "/", "f", "i", "l", "e", "s", "/", "d", "a", "t", "a", ".", "c", "s", "v">>
URL_NO_EXT == <<"h", "t", "t", "p", "s", ":", "/", "/", "e", "x", "a", "m", "p", "l", "e", ".", "c", "o", "m", "/", "d", "o", "w", "n", "l", "o", "a", "d">>
URL_OVERRIDE == <<"h", "t", "t", "p", "s", ":", "/", "/", "e", "x", "a", "m", "p", "l", "e", ".", "c", "o", "m", "/", "f", "i", "l", "e", "s", "/", "d", "a", "t", "a", ".", "c", "s", "v", "?", "f", "i", "l", "e", "t", "y", "p", "e", "=", "p", "a", "r", "q", "u", "e", "t">>
URL_PSV == <<"h", "t", "t", "p", "s", ":", "/", "/", "e", "x", "a", "m", "p", "l", "e", ".", "c", "o", "m", "/", "e", "x", "p", "o", "r", "t", "?", "f", "i", "l", "e", "t", "y", "p", "e", "=", "p", "s", "v">>
URL_DROPBOX == <<"h", "t", "t", "p", "s", ":", "/", "/", "w", "w", "w", ".", "d", "r", "o", "p", "b", "o", "x", ".", "c", "o", "m", "/", "s", "/", "a", "b", "c", "1", "2", "3", "/", "r", "e", "p", "o", "r", "t", ".", "c", "s", "v", "?", "d", "l", "=", "0">>
URL_GDRIVE == <<"h", "t", "t", "p", "s", ":", "/", "/", "d", "r", "i", "v", "e", ".", "g", "o", "o", "g", "l", "e", ".", "c", "o", "m", "/", "f", "i", "l", "e", "/", "d", "/", "1", "A", "2", "B", "3", "C", "4", "D", "5", "E", "6", "F", "/", "v", "i", "e", "w", "?", "u", "s", "p", "=", "s", "h", "a", "r", "i", "n", "g">>
URL_RELEASE == <<"h", "t", "t", "p", "s", ":", "/", "/", "g", "i", "t", "h", "u", "b", ".", "c", "o", "m", "/", "o", "/", "r", "/", "r", "e", "l", "e", "a", "s", "e", "s", "/", "d", "o", "w", "n", "l", "o", "a", "d", "/", "v", "1", "/", "x", ".", "d", "u", "c", "k", "d", "b">>
URL_RAW == <<"h", "t", "t", "p", "s", ":", "/", "/", "r", "a", "w", ".", "g", "i", "t", "h", "u", "b", "u", "s", "e", "r", "c", "o", "n", "t", "e", "n", "t", ".", "c", "o", "m", "/", "o", "/", "r", "/", "m", "a", "i", "n", "/", "d", "a", "t", "a">>
URL_GITHUB_REF == <<"h", "t", "t", "p", "s", ":", "/", "/", "g", "i", "t", "h", "u", "b", ".", "c", "o", "m", "/", "o", "/", "r", "/", "b", "l", "o", "b", "/", "m", "a", "i", "n", "/", "d", ".", "j", "s", "o", "n", "?", "r", "e", "f", "=", "d", "r", "o", "p", "b", "o", "x", ".", "c", "o", "m">>
URL_BRACKET == <<"h", "t", "t", "p", "s", ":", "/", "/", "[", "w", "w", "w", ".", "d", "r", "o", "p", "b", "o", "x", ".", "c", "o", "m", "/", "s", "/", "a", "b", "c", "1", "2", "3", "/", "r", "e", "p", "o", "r", "t", ".", "c", "s", "v">>

ShareUrls == { URL_CSV, URL_NO_EXT, URL_OVERRIDE, URL_PSV, URL_DROPBOX, URL_GDRIVE,
               URL_RELEASE, URL_RAW, URL_GITHUB_REF, URL_BRACKET }

PROXY_BASE == <<"h", "t", "t", "p", "s", ":", "/", "/", "p", "r", "o", "x", "y", ".", "e", "x", "a", "m", "p", "l", "e", ".", "c", "o", "m", "/">>
PAT == <<"g", "h", "p", "_", "0", "1", "2", "3", "4", "5", "6", "7", "8", "9", "a", "b", "c", "d", "e", "f">>
ACCESS_TOKEN == <<"s", "l", ".", "t", "o", "k", "e", "n">>

HtmlPage == <<"<", "!", "D", "O", "C", "T", "Y", "P", "E", " ", "h", "t", "m", "l", ">", "<", "h", "t", "m", "l", ">", "<", "/", "h", "t", "m", "l", ">">>
ParquetFile == PAR1 \o Fill("x00", 16) \o PAR1
SqliteFile == SQLITE_MAGIC \o Fill("x00", 17)
PipeText == <<"a", "|", "b", "|", "c", "\n", "1", "|", "2", "|", "3", "\n", "4", "|", "5", "|", "6", "\n", "7", "|", "8", "|", "9", "\n">>
JsonText == <<"{", "\"", "a", "\"", ":", " ", "1", ",", " ", "\"", "b", "\"", ":", " ", "[", "1", ",", " ", "2", ",", " ", "3", "]", "}">>
BinaryJunk == Fill("xFF", 24)
TabText == <<"a", "\t", "b", "\t", "c", "\n", "1", "\t", "2", "\t", "3", "\n", "4", "\t", "5", "\t", "6", "\n", "7", "\t", "8", "\t", "9", "\n">>
\* no separator in the first line, pipes in the second
PlainText == <<"h", "e", "a", "d", "i", "n", "g", " ", "o", "n", "l", "y", "\n", "1", "|", "2", "|", "3", "\n", "4", "|", "5", "|", "6", "\n">>
\* tabs, a pipe and commas in the first line, after bytes that are no UTF-8
MixedText == <<"xFF", "a", "\t", "b", "\t", "c", "|", "d", ",", "e", ",", "f", "\n", "1", "\t", "2", "\t", "3", "\t", "4", "\n", "xFF", "\n">>

Bodies == { HtmlPage, ParquetFile, SqliteFile, PipeText, JsonText, BinaryJunk, ScenarioD, ScenarioD4Rows }

NO_DISPOSITION == <<>>
DISPOSITION_TSV == <<"a", "t", "t", "a", "c", "h", "m", "e", "n", "t", ";", " ", "f", "i", "l", "e", "n", "a", "m", "e", "=", "\"", "e", "x", "p", "o", "r", "t", ".", "t", "s", "v", "\"">>

Raises == [kind |-> "raises", ok |-> FALSE, content_disposition |-> NO_DISPOSITION, bytes |-> <<>>]
NotOk == [kind |-> "response", ok |-> FALSE, content_disposition |-> NO_DISPOSITION, bytes |-> HtmlPage]
Ok(content_disposition, bytes) ==
    [kind |-> "response", ok |-> TRUE, content_disposition |-> content_disposition, bytes |-> bytes]

\* what the network and the display routine do in one run: the download response
\* and whether the routine's import step succeeds
Exchanges ==
    { [response |-> r, display_ok |-> TRUE] :
        r \in {Raises, NotOk} \cup { Ok(NO_DISPOSITION, b) : b \in Bodies }
              \cup { Ok(DISPOSITION_TSV, b) : b \in {HtmlPage, PipeText, ScenarioD} } }
    \cup { [response |-> Ok(NO_DISPOSITION, b), display_ok |-> FALSE] :
             b \in {ParquetFile, SqliteFile, ScenarioD4Rows} }

FewExchanges ==
    { [response |-> r, display_ok |-> TRUE] : r \in {NotOk, Ok(NO_DISPOSITION, HtmlPage), Ok(NO_DISPOSITION, PipeText)} }

\* the exchanges tried with a URL or path that itself names a file type
HintedExchanges ==
    FewExchanges
    \cup { [response |-> Raises, display_ok |-> TRUE],
           [response |-> Ok(DISPOSITION_TSV, PipeText), display_ok |-> TRUE],
           [response |-> Ok(NO_DISPOSITION, ParquetFile), display_ok |-> FALSE] }

\* delimited text whose separator differs from the one its name suggests
DelimiterExchanges ==
    { [response |-> Ok(NO_DISPOSITION, b), display_ok |-> TRUE] : b \in {TabText, PlainText, MixedText} }

ShareInput(sheets, B5, B12, B17, env_pat, x) ==
    [sheets |-> sheets, B5 |-> B5, B12 |-> B12, B17 |-> B17, env_pat |-> env_pat,
     response |-> x.response, display_ok |-> x.display_ok]

SharelinkInputs ==
    { ShareInput({"SHARE_LINK_ACCESS"}, StrCell(u), EmptyCell, EmptyCell, NoText, x) :
        u \in {URL_NO_EXT, URL_GDRIVE, URL_RAW}, x \in Exchanges }
    \cup { ShareInput({"SHARE_LINK_ACCESS"}, StrCell(u), EmptyCell, EmptyCell, NoText, x) :
             u \in ShareUrls, x \in HintedExchanges }
    \cup { ShareInput({"SHARE_LINK_ACCESS"}, StrCell(u), EmptyCell, EmptyCell, NoText, x) :
             u \in {URL_CSV, URL_NO_EXT}, x \in DelimiterExchanges }
    \cup { ShareInput({"SHARE_LINK_ACCESS"}, StrCell(u), NumCell(1), StrCell(PROXY_BASE), PAT, x) :
             u \in {URL_RAW, URL_RELEASE, URL_DROPBOX}, x \in FewExchanges }
    \cup { ShareInput({"SHARE_LINK_ACCESS"}, StrCell(u), NumCell(1), b17, pat,
                      [response |-> Ok(NO_DISPOSITION, PipeText), display_ok |-> TRUE]) :
             u \in {URL_RAW, URL_RELEASE, URL_DROPBOX}, b17 \in {EmptyCell, StrCell(PROXY_BASE)},
             pat \in {NoText, PAT} }
    \cup { ShareInput(s, b5, b12, StrCell(PROXY_BASE), PAT,
                      [response |-> Ok(NO_DISPOSITION, PipeText), display_ok |-> TRUE]) :
             s \in {{"MASTER"}, {"MASTER", "SHARE_LINK_ACCESS"}},
             b5 \in {EmptyCell, NumCell(5), StrCell(<<" ">> \o URL_RAW \o <<" ">>)},
             b12 \in {NumCell(0), StrCell(<<" ", "1", " ">>), StrCell(<<"y", "e", "s">>)} }
    \cup { ShareInput({}, StrCell(<<" ">> \o URL_RAW \o <<" ">>), NumCell(0), StrCell(PROXY_BASE), PAT,
                      [response |-> Ok(NO_DISPOSITION, PipeText), display_ok |-> TRUE]) }

\* a Dropbox link with dl=1 already, full of reserved characters
URL_RESERVED == <<"h", "t", "t", "p", "s", ":", "/", "/", "w", "w", "w", ".", "d", "r", "o", "p", "b", "o", "x", ".", "c", "o", "m", "/", "s", "/", "a", "%", "2", "0", "b", "/", "~", "r", "+", "1", ",", "2", ";", "x", "@", "y", "!", "$", "'", "(", ")", "*", "[", "z", "]", ".", "c", "s", "v", "?", "d", "l", "=", "1", "#", "t", "o", "p">>

RAW_NAME_PDF == <<"r", "e", "p", "o", "r", "t", ".", "P", "D", "F">>
RAW_NAME_PLAIN == <<" ", "R", "E", "A", "D", "M", "E", " ">>

RawShareInput(sheets, B5, B7, B8, response) ==
    [sheets |-> sheets, B5 |-> B5, B7 |-> B7, B8 |-> B8, response |-> response]

\* the cells and the response of one run of import_raw_sharelink
RawShareInputs ==
    { RawShareInput({"SHARE_LINK_ACCESS"}, StrCell(u), NumCell(1), StrCell(RAW_NAME_PDF), r) :
        u \in {URL_NO_EXT, URL_GDRIVE, URL_DROPBOX, URL_RELEASE, URL_RAW, URL_BRACKET, URL_RESERVED},
        r \in {NotOk, Ok(NO_DISPOSITION, PipeText)} }
    \cup { RawShareInput({"SHARE_LINK_ACCESS"}, StrCell(u), NumCell(1), StrCell(RAW_NAME_PLAIN), r) :
             u \in {URL_GDRIVE, URL_RAW},
             r \in {Raises, NotOk, Ok(NO_DISPOSITION, PipeText), Ok(NO_DISPOSITION, HtmlPage)} }
    \cup { RawShareInput({"MASTER"}, b5, b7, b8, Ok(NO_DISPOSITION, PipeText)) :
             b5 \in {EmptyCell, StrCell(<<" ">> \o URL_RELEASE \o <<" ">>)},
             b7 \in {EmptyCell, NumCell(0), StrCell(<<" ", "1", " ">>), StrCell(<<"y", "e", "s">>)},
             b8 \in {EmptyCell, NumCell(5), StrCell(RAW_NAME_PDF), StrCell(<<" ">>)} }
    \cup { RawShareInput(s, StrCell(URL_RAW), NumCell(1), StrCell(RAW_NAME_PDF), Ok(NO_DISPOSITION, PipeText)) :
             s \in {{}, {"MASTER", "SHARE_LINK_ACCESS"}} }

DROPBOX_PATH_CSV == <<"/", "f", "o", "l", "d", "e", "r", "/", "r", "e", "p", "o", "r", "t", ".", "C", "S", "V">>
DROPBOX_PATH_NO_EXT == <<"/", "f", "o", "l", "d", "e", "r", "/", "r", "e", "p", "o", "r", "t">>
DROPBOX_PATH_RELATIVE == <<"f", "o", "l", "d", "e", "r", "/", "r", "e", "p", "o", "r", "t", ".", "c", "s", "v">>
GDRIVE_ID == <<"1", "A", "2", "B", "3", "C", "4", "D", "5", "E", "6", "F">>
GDRIVE_SHORT == <<"a", "b", "c">>
OTHER_PROVIDER == <<"O", "n", "e", "D", "r", "i", "v", "e">>

TokenInput(has_sheet, B5, B6, B7, env, token_response, x) ==
    [has_sheet |-> has_sheet, B5 |-> B5, B6 |-> B6, B7 |-> B7,
     env_pat |-> env.pat, env_dropbox |-> env.dropbox, env_gdrive |-> env.gdrive,
     token_response |-> token_response, response |-> x.response, display_ok |-> x.display_ok]

FullEnv == [pat |-> PAT, dropbox |-> TRUE, gdrive |-> TRUE]
EmptyEnv == [pat |-> NoText, dropbox |-> FALSE, gdrive |-> FALSE]

TokenGranted == [kind |-> "response", ok |-> TRUE, access_token |-> ACCESS_TOKEN]
TokenRefused == [kind |-> "response", ok |-> FALSE, access_token |-> NoText]
TokenRaises == [kind |-> "raises", ok |-> FALSE, access_token |-> NoText]

TokenInputs ==
    { TokenInput(TRUE, StrCell(p[1]), StrCell(p[2]), EmptyCell, FullEnv, TokenGranted, x) :
        p \in { <<DROPBOX, DROPBOX_PATH_NO_EXT>>, <<GOOGLE_DRIVE, GDRIVE_ID>> },
        x \in Exchanges }
    \cup { TokenInput(TRUE, StrCell(p[1]), StrCell(p[2]), EmptyCell, FullEnv, TokenGranted, x) :
             p \in { <<DROPBOX, DROPBOX_PATH_CSV>>, <<GOOGLE_DRIVE, URL_GDRIVE>>,
                     <<GITHUB, URL_RAW>>, <<GITHUB, URL_CSV>> },
             x \in HintedExchanges }
    \cup { TokenInput(TRUE, StrCell(p[1]), StrCell(p[2]), EmptyCell, FullEnv, TokenGranted, x) :
             p \in { <<DROPBOX, DROPBOX_PATH_CSV>> }, x \in DelimiterExchanges }
    \cup { TokenInput(TRUE, StrCell(GITHUB), StrCell(u), b7, FullEnv, TokenGranted, x) :
             u \in {URL_RAW, URL_RELEASE},
             b7 \in {EmptyCell, StrCell(PROXY_BASE), StrCell(<<" ">>), NumCell(5), NumCell(0)},
             x \in FewExchanges }
    \cup { TokenInput(TRUE, StrCell(p[1]), StrCell(p[2]), EmptyCell, env, tr,
                      [response |-> Ok(NO_DISPOSITION, PipeText), display_ok |-> TRUE]) :
             p \in { <<DROPBOX, DROPBOX_PATH_NO_EXT>>, <<GOOGLE_DRIVE, GDRIVE_ID>>, <<GITHUB, URL_RAW>> },
             env \in {FullEnv, EmptyEnv}, tr \in {TokenGranted, TokenRefused, TokenRaises} }
    \cup { TokenInput(FALSE, StrCell(DROPBOX), StrCell(DROPBOX_PATH_RELATIVE), EmptyCell, FullEnv,
                      TokenGranted, [response |-> Ok(NO_DISPOSITION, PipeText), display_ok |-> TRUE]) }
    \cup { TokenInput(TRUE, b5, b6, EmptyCell, FullEnv, TokenGranted,
                      [response |-> Ok(NO_DISPOSITION, PipeText), display_ok |-> TRUE]) :
             b5 \in { EmptyCell, StrCell(OTHER_PROVIDER), StrCell(DROPBOX), StrCell(GOOGLE_DRIVE), StrCell(GITHUB) },
             b6 \in { EmptyCell, NumCell(5), StrCell(DROPBOX_PATH_RELATIVE), StrCell(GDRIVE_SHORT) } }

-----------------------------------------------------------------------------
(* The byte classifier applied to one buffer *)

InitBytes ==
    /\ InitSession
    /\ call \in { [fn |-> "detect_file_type_from_bytes", arg |-> b, pc |-> "called", ret |-> None] :
                    b \in Buffers }

DetectFileTypeFromBytes ==
    /\ call.fn = "detect_file_type_from_bytes"
    /\ call.pc = "called"
    /\ call' = [call EXCEPT !.pc = "returned", !.ret = detect_file_type_from_bytes(call.arg)]
    /\ UNCHANGED sessionVars

NextBytes == DetectFileTypeFromBytes

SpecBytes == InitBytes /\ [][NextBytes]_vars

-----------------------------------------------------------------------------
(* needs_proxy applied to one URL *)

ProxyHosts == { <<"h", "t", "t", "p", "s", ":", "/", "/", "g", "i", "t", "h", "u", "b", ".", "c", "o", "m">>, <<"h", "t", "t", "p", "s", ":", "/", "/", "G", "i", "t", "H", "u", "b", ".", "c", "o", "m">>, <<"h", "t", "t", "p", "s", ":", "/", "/", "r", "a", "w", ".", "g", "i", "t", "h", "u", "b", "u", "s", "e", "r", "c", "o", "n", "t", "e", "n", "t", ".", "c", "o", "m">>, <<"h", "t", "t", "p", "s", ":", "/", "/", "d", "r", "i", "v", "e", ".", "g", "o", "o", "g", "l", "e", ".", "c", "o", "m">>, <<"h", "t", "t", "p", "s", ":", "/", "/", "d", "r", "i", "v", "e", ".", "u", "s", "e", "r", "c", "o", "n", "t", "e", "n", "t", ".", "g", "o", "o", "g", "l", "e", ".", "c", "o", "m">>, <<"h", "t", "t", "p", "s", ":", "/", "/", "w", "w", "w", ".", "D", "R", "O", "P", "B", "O", "X", ".", "c", "o", "m">>, <<"h", "t", "t", "p", "s", ":", "/", "/", "e", "x", "a", "m", "p", "l", "e", ".", "c", "o", "m">> }
ProxyPaths == { <<"/", "o", "/", "r", "/", "m", "a", "i", "n", "/", "d", "a", "t", "a", ".", "c", "s", "v">>,
               <<"/", "o", "/", "r", "/", "r", "e", "l", "e", "a", "s", "e", "s", "/", "d", "o", "w", "n", "l", "o", "a", "d", "/", "v", "1", "/", "x", ".", "z", "i", "p">>,
               <<"/", "o", "/", "r", "/", "R", "e", "l", "e", "a", "s", "e", "s", "/", "x">>,
               <<"/", "r", "e", "l", "e", "a", "s", "e", "s">> }
ProxyQueries == { <<>>,
                 <<"?", "r", "e", "f", "=", "d", "r", "o", "p", "b", "o", "x", ".", "c", "o", "m">>,
                 <<"?", "u", "=", "d", "r", "i", "v", "e", ".", "g", "o", "o", "g", "l", "e", ".", "c", "o", "m">>,
                 <<"?", "n", "e", "x", "t", "=", "g", "i", "t", "h", "u", "b", ".", "c", "o", "m", "/", "r", "e", "l", "e", "a", "s", "e", "s", "/">> }

ProxyUrls == { h \o p \o q : h \in ProxyHosts, p \in ProxyPaths, q \in ProxyQueries }

InitProxy ==
    /\ InitSession
    /\ call \in { [fn |-> "needs_proxy", arg |-> [url |-> u, is_private |-> b], pc |-> "called", ret |-> FALSE] :
                    u \in ProxyUrls, b \in BOOLEAN }

NeedsProxy ==
    /\ call.fn = "needs_proxy"
    /\ call.pc = "called"
    /\ call' = [call EXCEPT !.pc = "returned", !.ret = needs_proxy(call.arg.url, call.arg.is_private)]
    /\ UNCHANGED sessionVars

NextProxy == NeedsProxy

SpecProxy == InitProxy /\ [][NextProxy]_vars

-----------------------------------------------------------------------------
(* The resolver and the name-based classifiers applied to one argument *)

\* s.upper()
upper(s) ==
    [i \in 1..Len(s) |-> IF s[i] \in LowerCase THEN CHOOSE c \in UpperCase : LowerOf[c] = s[i] ELSE s[i]]

\* file names: a stem, a dot and an extension in lower, upper and mixed case,
\* and names without a dot
HintStems == { <<"f">>, <<"r", "e", "p", "o", "r", "t", ".", "v", "2">> }
OtherExts == { <<"x", "l", "s", "x">>, <<"g", "z">>, <<"c", "s", "v", "x">>, <<"c", "s">> }
ExtCases(w) == { w, upper(w), upper(Take(w, 1)) \o Drop(w, 2) }
HintFileNames ==
    { stem \o <<".">> \o e : stem \in HintStems,
                             e \in UNION { ExtCases(w) : w \in FileTypeWords \cup OtherExts } }
    \cup { <<"f", "c", "s", "v">>, <<"p", "a", "r", "q", "u", "e", "t">> }

\* directory paths of up to n segments; one segment name ends like a file name
HintDirs == { <<"d", "a", "t", "a">>, <<"v", "1", ".", "c", "s", "v">> }
RECURSIVE DirPaths(_)
DirPaths(n) ==
    IF n = 0 THEN { <<>> }
    ELSE DirPaths(n - 1) \cup { p \o <<"/">> \o d : p \in DirPaths(n - 1), d \in HintDirs }

\* the paths handed to detect_file_type_from_path
HintPaths ==
    HintFileNames
    \cup { d \o <<"/">> \o f : d \in DirPaths(MaxDirs), f \in HintFileNames }
    \cup { d \o <<"/">> : d \in DirPaths(MaxDirs) }

HINT_HOST == <<"h", "t", "t", "p", "s", ":", "/", "/", "e", "x", "a", "m", "p", "l", "e", ".", "c", "o", "m">>
HINT_BAD_HOST == <<"h", "t", "t", "p", "s", ":", "/", "/", "[", "e", "x", "a", "m", "p", "l", "e", ".", "c", "o", "m">>

\* query strings (and fragments) without a filetype parameter
PlainQueries ==
    { <<>>, <<"?", "x", "=", "1">>, <<"#", "t", "o", "p">>, <<"#", "f", "i", "l", "e", "t", "y", "p", "e", "=", "c", "s", "v">>, <<"?", "F", "i", "l", "e", "T", "y", "p", "e", "=", "j", "s", "o", "n">> }

\* query strings with a filetype parameter
FiletypeQueries ==
    { <<"?", "f", "i", "l", "e", "t", "y", "p", "e", "=", "p", "a", "r", "q", "u", "e", "t">>, <<"?", "f", "i", "l", "e", "t", "y", "p", "e", "=", "P", "S", "V">>, <<"?", "f", "i", "l", "e", "t", "y", "p", "e", "=", "C", "s", "v">>, <<"?", "f", "i", "l", "e", "t", "y", "p", "e", "=", "x", "l", "s", "x">>, <<"?", "f", "i", "l", "e", "t", "y", "p", "e", "=">>,
      <<"?", "x", "=", "1", "&", "f", "i", "l", "e", "t", "y", "p", "e", "=", "j", "s", "o", "n">>, <<"?", "f", "i", "l", "e", "t", "y", "p", "e", "=", "z", "i", "p", "&", "f", "i", "l", "e", "t", "y", "p", "e", "=", "c", "s", "v">>, <<"?", "f", "i", "l", "e", "t", "y", "p", "e", "=", "%", "7", "4", "s", "v">>, <<"?", "f", "i", "l", "e", "t", "y", "p", "e", "=", "t", "x", "t", "#", "t", "o", "p">> }

\* the URLs handed to detect_file_type, with the parts they are built from
HintUrls ==
    { [url |-> HINT_HOST \o p \o q, path |-> p, query |-> q] :
        p \in { d \o <<"/">> \o f : d \in DirPaths(MaxDirs), f \in HintFileNames }
               \cup { d \o <<"/">> : d \in DirPaths(MaxDirs) } \cup { <<>> },
        q \in PlainQueries \cup FiletypeQueries }
    \cup { [url |-> HINT_BAD_HOST \o p \o q, path |-> p, query |-> q] :
             p \in { <<"/", "d", "a", "t", "a", "/", "f", ".", "c", "s", "v">>, <<"/", "d", "a", "t", "a">> },
             q \in { <<>>, <<"?", "f", "i", "l", "e", "t", "y", "p", "e", "=", "p", "a", "r", "q", "u", "e", "t">> } }

HEADER_QUOTED == <<"a", "t", "t", "a", "c", "h", "m", "e", "n", "t", ";", " ", "f", "i", "l", "e", "n", "a", "m", "e", "=", "\"">>
HEADER_PLAIN == <<"a", "t", "t", "a", "c", "h", "m", "e", "n", "t", ";", " ", "f", "i", "l", "e", "n", "a", "m", "e", "=">>
HEADER_MORE == <<";", " ", "s", "i", "z", "e", "=", "1">>

\* Content-Disposition values, with the file name they carry (NoText for none)
HintHeaders ==
    { [header |-> HEADER_QUOTED \o f \o <<"\"">>, name |-> f] : f \in HintFileNames }
    \cup { [header |-> HEADER_PLAIN \o f \o HEADER_MORE, name |-> f] : f \in HintFileNames }
    \cup { [header |-> <<>>, name |-> NoText], [header |-> <<"i", "n", "l", "i", "n", "e">>, name |-> NoText] }

ResolverCalls ==
    { [fn |-> "detect_file_type_from_path", arg |-> p, pc |-> "called", ret |-> None] : p \in HintPaths }
    \cup { [fn |-> "detect_file_type", arg |-> u.url, path |-> u.path, query |-> u.query,
            pc |-> "called", ret |-> None] : u \in HintUrls }
    \cup { [fn |-> "detect_file_type_from_header", arg |-> h.header, name |-> h.name,
            pc |-> "called", ret |-> None] : h \in HintHeaders }

\* the function a call names, applied to the call's argument
ResolverApply(c) ==
    CASE c.fn = "detect_file_type_from_path" -> detect_file_type_from_path(c.arg)
      [] c.fn = "detect_file_type" -> detect_file_type(c.arg)
      [] c.fn = "detect_file_type_from_header" -> detect_file_type_from_header(c.arg)

\* what every call returns
ResolverReturns == [c \in ResolverCalls |-> ResolverApply(c)]

\* Google Drive hosts and other hosts, in the letter cases tried
GDriveHosts ==
    { <<"h", "t", "t", "p", "s", ":", "/", "/", "d", "r", "i", "v", "e", ".", "g", "o", "o", "g", "l", "e", ".", "c", "o", "m">>,
      <<"h", "t", "t", "p", "s", ":", "/", "/", "d", "r", "i", "v", "e", ".", "u", "s", "e", "r", "c", "o", "n", "t", "e", "n", "t", ".", "g", "o", "o", "g", "l", "e", ".", "c", "o", "m">>,
      <<"h", "t", "t", "p", "s", ":", "/", "/", "D", "R", "I", "V", "E", ".", "G", "o", "o", "g", "l", "e", ".", "c", "o", "m">>,
      <<"h", "t", "t", "p", "s", ":", "/", "/", "d", "o", "c", "s", ".", "g", "o", "o", "g", "l", "e", ".", "c", "o", "m">>,
      <<"h", "t", "t", "p", "s", ":", "/", "/", "e", "x", "a", "m", "p", "l", "e", ".", "c", "o", "m">>,
      <<"h", "t", "t", "p", "s", ":", "/", "/", "e", "x", "a", "m", "p", "l", "e", ".", "c", "o", "m", "/", "x", "?", "r", "e", "f", "=", "d", "r", "i", "v", "e", ".", "g", "o", "o", "g", "l", "e", ".", "c", "o", "m", "&", "u", "=">> }

\* what follows the host, with the file id each of the three forms
\* /file/d/{id}, /open?id={id} and [?&]id={id} carries (NoText for none)
GDriveShapes ==
    { [tail |-> <<"/", "f", "i", "l", "e", "/", "d", "/", "1", "A", "2", "B", "3", "C", "/", "v", "i", "e", "w", "?", "u", "s", "p", "=", "s", "h", "a", "r", "i", "n", "g">>,
        by_path |-> <<"1", "A", "2", "B", "3", "C">>, by_open |-> NoText, by_id |-> NoText],
      [tail |-> <<"/", "o", "p", "e", "n", "?", "i", "d", "=", "1", "A", "2", "B", "3", "C">>,
        by_path |-> NoText, by_open |-> <<"1", "A", "2", "B", "3", "C">>, by_id |-> <<"1", "A", "2", "B", "3", "C">>],
      [tail |-> <<"/", "u", "c", "?", "i", "d", "=", "x", "_", "Y", "-", "9", "&", "e", "x", "p", "o", "r", "t", "=", "d", "o", "w", "n", "l", "o", "a", "d">>,
        by_path |-> NoText, by_open |-> NoText, by_id |-> <<"x", "_", "Y", "-", "9">>],
      [tail |-> <<"/", "u", "c", "?", "e", "x", "p", "o", "r", "t", "=", "d", "o", "w", "n", "l", "o", "a", "d", "&", "i", "d", "=", "x", "_", "Y", "-", "9">>,
        by_path |-> NoText, by_open |-> NoText, by_id |-> <<"x", "_", "Y", "-", "9">>],
      [tail |-> <<"/", "f", "i", "l", "e", "/", "d", "/", "1", "A", "2", "B", "3", "C", "/", "v", "i", "e", "w", "?", "i", "d", "=", "x", "_", "Y", "-", "9">>,
        by_path |-> <<"1", "A", "2", "B", "3", "C">>, by_open |-> NoText, by_id |-> <<"x", "_", "Y", "-", "9">>],
      [tail |-> <<"/", "o", "p", "e", "n", "?", "i", "d", "=", "x", "_", "Y", "-", "9", "&", "u", "=", "/", "f", "i", "l", "e", "/", "d", "/", "1", "A", "2", "B", "3", "C">>,
        by_path |-> <<"1", "A", "2", "B", "3", "C">>, by_open |-> <<"x", "_", "Y", "-", "9">>, by_id |-> <<"x", "_", "Y", "-", "9">>],
      [tail |-> <<"/", "u", "c", "?", "i", "d", "=", "1", "A", "2", "B", "3", "C", "&", "x", "=", "/", "o", "p", "e", "n", "?", "i", "d", "=", "x", "_", "Y", "-", "9">>,
        by_path |-> NoText, by_open |-> <<"x", "_", "Y", "-", "9">>, by_id |-> <<"1", "A", "2", "B", "3", "C">>],
      [tail |-> <<"/", "f", "i", "l", "e", "/", "d", "/", "1", "A", "2", "B", "3", "C", ".", "x", "/", "v", "i", "e", "w">>,
        by_path |-> <<"1", "A", "2", "B", "3", "C">>, by_open |-> NoText, by_id |-> NoText],
      [tail |-> <<"/", "d", "r", "i", "v", "e", "/", "f", "o", "l", "d", "e", "r", "s">>,
        by_path |-> NoText, by_open |-> NoText, by_id |-> NoText],
      [tail |-> <<"/", "f", "i", "l", "e", "/", "d", "/", "/", "v", "i", "e", "w", "?", "i", "d", "=">>,
        by_path |-> NoText, by_open |-> NoText, by_id |-> NoText],
      [tail |-> <<"/", "u", "c", "?", "s", "i", "d", "=", "1", "A", "2", "B", "3", "C">>,
        by_path |-> NoText, by_open |-> NoText, by_id |-> NoText],
      [tail |-> <<"/", "d", "o", "w", "n", "l", "o", "a", "d", "?", "i", "d", "=", "1", "A", "2", "B", "3", "C", "&", "e", "x", "p", "o", "r", "t", "=", "d", "o", "w", "n", "l", "o", "a", "d", "&", "c", "o", "n", "f", "i", "r", "m", "=", "t">>,
        by_path |-> NoText, by_open |-> NoText, by_id |-> <<"1", "A", "2", "B", "3", "C">>],
      [tail |-> <<"/", "d", "o", "w", "n", "l", "o", "a", "d", "?", "i", "d", "=", "x", "_", "Y", "-", "9", "&", "c", "o", "n", "f", "i", "r", "m", "=", "t", "r", "u", "e">>,
        by_path |-> NoText, by_open |-> NoText, by_id |-> <<"x", "_", "Y", "-", "9">>],
      [tail |-> <<"/", "d", "o", "w", "n", "l", "o", "a", "d", "?", "i", "d", "=", "1", "A", "2", "B", "3", "C">>,
        by_path |-> NoText, by_open |-> NoText, by_id |-> <<"1", "A", "2", "B", "3", "C">>] }

\* the URLs handed to convert_google_drive_url
GDriveUrls ==
    { [url |-> h \o s.tail, by_path |-> s.by_path, by_open |-> s.by_open, by_id |-> s.by_id] :
        h \in GDriveHosts, s \in GDriveShapes }

DropboxHosts ==
    { <<"h", "t", "t", "p", "s", ":", "/", "/", "w", "w", "w", ".", "d", "r", "o", "p", "b", "o", "x", ".", "c", "o", "m">>,
      <<"h", "t", "t", "p", "s", ":", "/", "/", "W", "W", "W", ".", "D", "r", "o", "p", "b", "o", "x", ".", "C", "O", "M">>,
      <<"h", "t", "t", "p", "s", ":", "/", "/", "d", "l", ".", "d", "r", "o", "p", "b", "o", "x", "u", "s", "e", "r", "c", "o", "n", "t", "e", "n", "t", ".", "c", "o", "m">>,
      <<"h", "t", "t", "p", "s", ":", "/", "/", "e", "x", "a", "m", "p", "l", "e", ".", "c", "o", "m">>,
      <<"w", "w", "w", ".", "d", "r", "o", "p", "b", "o", "x", ".", "c", "o", "m">>,
      <<"h", "t", "t", "p", "s", ":", "/", "/", "[", "w", "w", "w", ".", "d", "r", "o", "p", "b", "o", "x", ".", "c", "o", "m">> }

DropboxPaths ==
    { <<"/", "s", "/", "a", "b", "c", "/", "f", ".", "c", "s", "v">>,
      <<"/", "s", "c", "l", "/", "f", "i", "/", "x", "/", "d", "a", "t", "a", ".", "p", "a", "r", "q", "u", "e", "t", ";", "v", "=", "1">> }

\* query strings as the sequence of their fields
DropboxQueries ==
    { <<>>,
      <<<<"d", "l", "=", "0">>>>,
      <<<<"d", "l", "=", "1">>>>,
      <<<<"d", "l", "=", "0">>, <<"r", "l", "k", "e", "y", "=", "k", "1">>>>,
      <<<<"r", "l", "k", "e", "y", "=", "k", "1">>, <<"d", "l", "=", "0">>>>,
      <<<<"r", "l", "k", "e", "y", "=", "k", "1">>>>,
      <<<<"r", "l", "k", "e", "y", "=", "k", "1">>, <<"d", "l", "=", "1">>>>,
      <<<<"a", "=">>, <<"d", "l", "=", "0">>>>,
      <<<<"a", "=", "1">>, <<"a", "=", "2">>, <<"d", "l", "=", "0">>>>,
      <<<<"d", "l", "=", "0">>, <<"d", "l", "=", "1">>>>,
      <<<<"d", "l", "=", "1">>, <<"d", "l", "=", "0">>>>,
      <<<<"d", "l", "=", "%", "3", "1">>>>,
      <<<<"d", "l", "=">>>>,
      <<<<"q", "=", "a", "%", "2", "0", "b">>, <<"d", "l", "=", "0">>>>,
      <<<<"d", "l", "=", "2">>>>,
      <<<<"s", "t", "=", "x", "/", "y">>>>,
      <<<<"D", "L", "=", "1">>>> }

DropboxFragments == { <<>>, <<"#", "t", "o", "p">> }

\* the URLs handed to convert_dropbox_url, with the parts they are built from
DropboxUrls ==
    { [url |-> h \o p \o (IF q = <<>> THEN <<>> ELSE <<"?">> \o Join(q, <<"&">>)) \o f,
       base |-> h \o p, fields |-> q, fragment |-> f] :
        h \in DropboxHosts, p \in DropboxPaths, q \in DropboxQueries, f \in DropboxFragments }

\* a rewrite function called once (round 1) and then on its own output (round 2)
ConvertCalls ==
    { [fn |-> "convert_google_drive_url", arg |-> u.url, in |-> u, pc |-> "called", round |-> 1,
       ret |-> None, first |-> None] : u \in GDriveUrls }
    \cup { [fn |-> "convert_dropbox_url", arg |-> u.url, in |-> u, pc |-> "called", round |-> 1,
            ret |-> None, first |-> None] : u \in DropboxUrls }

\* what convert_google_drive_url returns for every URL and for every URL it returns
GDriveConversions ==
    With([u \in { v.url : v \in GDriveUrls } |-> convert_google_drive_url(u)], LAMBDA once :
        [u \in DOMAIN once \cup { once[v].url : v \in DOMAIN once } |->
            IF u \in DOMAIN once THEN once[u] ELSE convert_google_drive_url(u)])

\* what convert_dropbox_url returns for every URL and for every URL it returns
DropboxConversions ==
    With([u \in { v.url : v \in DropboxUrls } |-> convert_dropbox_url(u)], LAMBDA once :
        [u \in DOMAIN once \cup { once[v].url : v \in DOMAIN once } |->
            IF u \in DOMAIN once THEN once[u] ELSE convert_dropbox_url(u)])

InitResolver ==
    /\ InitSession
    /\ call \in ResolverCalls \cup ConvertCalls

DetectFileTypeFromPath ==
    /\ call.fn = "detect_file_type_from_path"
    /\ call.pc = "called"
    /\ call' = [call EXCEPT !.pc = "returned", !.ret = ResolverReturns[call]]
    /\ UNCHANGED sessionVars

DetectFileType ==
    /\ call.fn = "detect_file_type"
    /\ call.pc = "called"
    /\ call' = [call EXCEPT !.pc = "returned", !.ret = ResolverReturns[call]]
    /\ UNCHANGED sessionVars

DetectFileTypeFromHeader ==
    /\ call.fn = "detect_file_type_from_header"
    /\ call.pc = "called"
    /\ call' = [call EXCEPT !.pc = "returned", !.ret = ResolverReturns[call]]
    /\ UNCHANGED sessionVars

ConvertGoogleDriveUrl ==
    /\ call.fn = "convert_google_drive_url"
    /\ call.pc = "called"
    /\ call' = [call EXCEPT !.pc = "returned", !.ret = GDriveConversions[call.arg]]
    /\ UNCHANGED sessionVars

ConvertDropboxUrl ==
    /\ call.fn = "convert_dropbox_url"
    /\ call.pc = "called"
    /\ call' = [call EXCEPT !.pc = "returned", !.ret = DropboxConversions[call.arg]]
    /\ UNCHANGED sessionVars

\* the caller hands the URL a rewrite returned to the same rewrite again
ConvertAgain ==
    /\ call.fn \in {"convert_google_drive_url", "convert_dropbox_url"}
    /\ call.pc = "returned"
    /\ call.round = 1
    /\ call.fn = "convert_dropbox_url" => ~call.ret.raises
    /\ call' = [call EXCEPT !.pc = "called", !.round = 2, !.arg = call.ret.url,
                            !.first = call.ret, !.ret = None]
    /\ UNCHANGED sessionVars

NextResolver ==
    \/ DetectFileTypeFromPath
    \/ DetectFileType
    \/ DetectFileTypeFromHeader
    \/ ConvertGoogleDriveUrl
    \/ ConvertDropboxUrl
    \/ ConvertAgain

SpecResolver == InitResolver /\ [][NextResolver]_vars

-----------------------------------------------------------------------------
(* The import scripts run from the workbook *)

Init ==
    /\ InitSession
    /\ call = NoCall

\* the outcome of import_via_sharelink for every input
SharelinkRuns == { import_via_sharelink(in) : in \in SharelinkInputs }

TokenCaches == { [dropbox |-> d, gdrive |-> g] : d, g \in {NoText, ACCESS_TOKEN} }

\* the outcome of import_via_token for every input and every state of the token caches
TokenRuns == [tokens \in TokenCaches |-> { import_via_token(in, tokens) : in \in TokenInputs }]

\* a variant in which a run that stops early leaves the temp files alone
ImportViaSharelink_CleanupLate ==
    /\ runs < MaxRuns
    /\ \E r \in SharelinkRuns :
         /\ temp_files' = IF r.run.saved THEN r.temp_files ELSE temp_files
         /\ last_state' = IF r.run.saved THEN r.last_state ELSE last_state
         /\ cells' = Written(cells, r.writes)
         /\ run' = r.run
    /\ runs' = runs + 1
    /\ UNCHANGED <<call, raw_files, _dropbox_token, _gdrive_token, _loaded_modules>>

ImportViaSharelink ==
    /\ runs < MaxRuns
    /\ \E r \in SharelinkRuns :
         /\ temp_files' = r.temp_files
         /\ last_state' = IF r.run.saved THEN r.last_state ELSE last_state
         /\ cells' = Written(cells, r.writes)
         /\ run' = r.run
    /\ runs' = runs + 1
    /\ UNCHANGED <<call, raw_files, _dropbox_token, _gdrive_token, _loaded_modules>>

ImportViaToken ==
    /\ runs < MaxRuns
    /\ \E r \in TokenRuns[[dropbox |-> _dropbox_token, gdrive |-> _gdrive_token]] :
         /\ temp_files' = r.temp_files
         /\ last_state' = IF r.run.saved THEN r.last_state ELSE last_state
         /\ cells' = Written(cells, r.writes)
         /\ run' = r.run
         /\ _dropbox_token' = r.tokens.dropbox
         /\ _gdrive_token' = r.tokens.gdrive
    /\ runs' = runs + 1
    /\ UNCHANGED <<call, raw_files, _loaded_modules>>

Next == ImportViaSharelink \/ ImportViaToken

Spec == Init /\ [][Next]_vars

-----------------------------------------------------------------------------
(* get_dropbox_token and get_gdrive_token called on their own *)

\* the token a later exchange would hand out
ACCESS_TOKEN_2 == <<"s", "l", ".", "l", "a", "t", "e", "r">>

TokenRegranted == [kind |-> "response", ok |-> TRUE, access_token |-> ACCESS_TOKEN_2]

\* the environment and the token server at the time of one call
TokenCallInputs ==
    { [env_dropbox |-> e, env_gdrive |-> e, token_response |-> t] :
        e \in BOOLEAN, t \in {TokenGranted, TokenRegranted, TokenRefused, TokenRaises} }

\* one call recorded: the cache it found, what it returned or raised, the
\* requests it made
TokenCall(fn, cached_before, in, result) ==
    [script |-> fn, cached_before |-> cached_before, in |-> in, error |-> result.error,
     token |-> result.token, requests |-> result.requests]

GetDropboxToken ==
    /\ runs < MaxCalls
    /\ \E in \in TokenCallInputs :
         With(get_dropbox_token(_dropbox_token, in), LAMBDA result :
            /\ _dropbox_token' = result.cached
            /\ run' = TokenCall("get_dropbox_token", _dropbox_token, in, result))
    /\ runs' = runs + 1
    /\ UNCHANGED <<call, temp_files, raw_files, last_state, cells, _gdrive_token, _loaded_modules>>

GetGdriveToken ==
    /\ runs < MaxCalls
    /\ \E in \in TokenCallInputs :
         With(get_gdrive_token(_gdrive_token, in), LAMBDA result :
            /\ _gdrive_token' = result.cached
            /\ run' = TokenCall("get_gdrive_token", _gdrive_token, in, result))
    /\ runs' = runs + 1
    /\ UNCHANGED <<call, temp_files, raw_files, last_state, cells, _dropbox_token, _loaded_modules>>

NextTokens == GetDropboxToken \/ GetGdriveToken

SpecTokens == Init /\ [][NextTokens]_vars

-----------------------------------------------------------------------------
(* Resolver and classifier functions called from two import operations at a
   time, while the token functions fill the module's token caches *)

\* the import operations in progress
Callers == {1, 2}

\* the calls an import operation makes
InterleavedCalls ==
    { [fn |-> "is_github_url", arg |-> URL_RAW],
      [fn |-> "needs_proxy", arg |-> <<URL_RELEASE, FALSE>>],
      [fn |-> "build_public_proxy_url", arg |-> URL_CSV],
      [fn |-> "build_private_proxy_url", arg |-> <<URL_RAW, PROXY_BASE>>],
      [fn |-> "convert_google_drive_url", arg |-> URL_GDRIVE],
      [fn |-> "convert_dropbox_url", arg |-> URL_DROPBOX],
      [fn |-> "detect_file_type", arg |-> URL_OVERRIDE],
      [fn |-> "detect_file_type_from_path", arg |-> DROPBOX_PATH_CSV],
      [fn |-> "detect_file_type_from_header", arg |-> DISPOSITION_TSV],
      [fn |-> "detect_file_type_from_bytes", arg |-> PipeText],
      [fn |-> "detect_delimiter_from_content", arg |-> MixedText] }

\* a variant of Resolve in which needs_proxy looks at the Dropbox token cache
Resolve_TokenAware(fn, arg) ==
    CASE fn = "is_github_url" -> is_github_url(arg)
      [] fn = "needs_proxy" -> needs_proxy(arg[1], arg[2]) /\ _dropbox_token = NoText
      [] fn = "build_public_proxy_url" -> build_public_proxy_url(arg)
      [] fn = "build_private_proxy_url" -> build_private_proxy_url(arg[1], arg[2])
      [] fn = "convert_google_drive_url" -> convert_google_drive_url(arg)
      [] fn = "convert_dropbox_url" -> convert_dropbox_url(arg)
      [] fn = "detect_file_type" -> detect_file_type(arg)
      [] fn = "detect_file_type_from_path" -> detect_file_type_from_path(arg)
      [] fn = "detect_file_type_from_header" -> detect_file_type_from_header(arg)
      [] fn = "detect_file_type_from_bytes" -> detect_file_type_from_bytes(arg)
      [] fn = "detect_delimiter_from_content" -> detect_delimiter_from_content(arg)

\* the function named fn applied to arg: none of the functions reads anything
\* but its parameters (PUBLIC_PROXY_URL is assigned once, at import)
Resolve(fn, arg) ==
    CASE fn = "is_github_url" -> is_github_url(arg)
      [] fn = "needs_proxy" -> needs_proxy(arg[1], arg[2])
      [] fn = "build_public_proxy_url" -> build_public_proxy_url(arg)
      [] fn = "build_private_proxy_url" -> build_private_proxy_url(arg[1], arg[2])
      [] fn = "convert_google_drive_url" -> convert_google_drive_url(arg)
      [] fn = "convert_dropbox_url" -> convert_dropbox_url(arg)
      [] fn = "detect_file_type" -> detect_file_type(arg)
      [] fn = "detect_file_type_from_path" -> detect_file_type_from_path(arg)
      [] fn = "detect_file_type_from_header" -> detect_file_type_from_header(arg)
      [] fn = "detect_file_type_from_bytes" -> detect_file_type_from_bytes(arg)
      [] fn = "detect_delimiter_from_content" -> detect_delimiter_from_content(arg)

\* what each call returns
Resolved == [c \in InterleavedCalls |-> Resolve(c.fn, c.arg)]

\* in this specification call holds the call of each import operation
InitInterleaved ==
    /\ InitSession
    /\ call = [c \in Callers |-> NoCall]

\* an import operation calls one of the functions
Invoke(c) ==
    /\ call[c].pc = "idle"
    /\ \E i \in InterleavedCalls :
         call' = [call EXCEPT ![c] = [fn |-> i.fn, arg |-> i.arg, pc |-> "called", ret |-> None]]
    /\ UNCHANGED sessionVars

\* the function returns to the import operation that called it
Return(c) ==
    /\ call[c].pc = "called"
    /\ call' = [call EXCEPT ![c].pc = "returned",
                            ![c].ret = Resolved[[fn |-> call[c].fn, arg |-> call[c].arg]]]
    /\ UNCHANGED sessionVars

NextInterleaved ==
    \/ \E c \in Callers : Invoke(c)
    \/ \E c \in Callers : Return(c)
    \/ GetDropboxToken
    \/ GetGdriveToken

SpecInterleaved == InitInterleaved /\ [][NextInterleaved]_vars

-----------------------------------------------------------------------------
(* load_remote_module: fetch, execute and cache a module of run_stats *)

GITHUB_RAW_BASE == "https://raw.githubusercontent.com/amararun/xlwings-lite-apps-codes-docs/main/remote_modules"

MIRROR_URL == "https://example.com/mirror/stats.py"

\* what pyfetch gives for the module: the code served (two versions that run,
\* one that raises when executed), a status other than 200, or a failed fetch
ModuleResponses ==
    { [kind |-> "response", status |-> 200, code |-> c] : c \in {"version 1", "version 2", "raise"} }
    \cup { [kind |-> "response", status |-> 404, code |-> "Not Found"],
           [kind |-> "raises", status |-> 0, code |-> ""] }

\* the arguments of one call and the response the server would give
ModuleLoadInputs ==
    { [module_name |-> m, github_url |-> u, response |-> r] :
        m \in ModuleNames, u \in {None, MIRROR_URL}, r \in ModuleResponses }

\* a variant that fetches again when the URL passed is not the one the cached
\* module came from
load_remote_module_UrlKeyed(loaded, in) ==
    LET github_url == IF in.github_url = None THEN GITHUB_RAW_BASE \o "/" \o in.module_name \o ".py"
                      ELSE in.github_url
        module_globals == [name |-> in.module_name, file |-> github_url, code |-> in.response.code]
        raised(requests, executed) ==
            [loaded |-> loaded, ret |-> NoModule, raised |-> TRUE, requests |-> requests,
             executed |-> executed]
    IN  IF loaded[in.module_name] # NoModule /\ loaded[in.module_name].file = github_url
        THEN [loaded |-> loaded, ret |-> loaded[in.module_name], raised |-> FALSE, requests |-> <<>>,
              executed |-> FALSE]
        ELSE IF in.response.kind = "raises" THEN raised(<<github_url>>, FALSE)
        ELSE IF in.response.status # 200 THEN raised(<<github_url>>, FALSE)
        ELSE IF in.response.code = "raise" THEN raised(<<github_url>>, TRUE)
        ELSE [loaded |-> [loaded EXCEPT ![in.module_name] = module_globals], ret |-> module_globals,
              raised |-> FALSE, requests |-> <<github_url>>, executed |-> TRUE]

\* load_remote_module called with _loaded_modules = loaded: the dictionary
\* afterwards, the value returned (NoModule when it raises), the URLs fetched
\* and whether exec ran
load_remote_module(loaded, in) ==
    LET github_url == IF in.github_url = None THEN GITHUB_RAW_BASE \o "/" \o in.module_name \o ".py"
                      ELSE in.github_url
        module_globals == [name |-> in.module_name, file |-> github_url, code |-> in.response.code]
        raised(requests, executed) ==
            [loaded |-> loaded, ret |-> NoModule, raised |-> TRUE, requests |-> requests,
             executed |-> executed]
    IN  IF loaded[in.module_name] # NoModule
        THEN [loaded |-> loaded, ret |-> loaded[in.module_name], raised |-> FALSE, requests |-> <<>>,
              executed |-> FALSE]
        ELSE IF in.response.kind = "raises" THEN raised(<<github_url>>, FALSE)
        ELSE IF in.response.status # 200 THEN raised(<<github_url>>, FALSE)
        ELSE IF in.response.code = "raise" THEN raised(<<github_url>>, TRUE)
        ELSE [loaded |-> [loaded EXCEPT ![in.module_name] = module_globals], ret |-> module_globals,
              raised |-> FALSE, requests |-> <<github_url>>, executed |-> TRUE]

LoadRemoteModule ==
    /\ runs < MaxLoads
    /\ \E in \in ModuleLoadInputs :
         With(load_remote_module(_loaded_modules, in), LAMBDA result :
            /\ _loaded_modules' = result.loaded
            /\ run' = [script |-> "load_remote_module", in |-> in, ret |-> result.ret,
                       raised |-> result.raised, requests |-> result.requests,
                       executed |-> result.executed])
    /\ runs' = runs + 1
    /\ UNCHANGED <<call, temp_files, raw_files, last_state, cells, _dropbox_token, _gdrive_token>>

NextModules == LoadRemoteModule

SpecModules == Init /\ [][NextModules]_vars

\* the outcome of import_raw_sharelink for every input
RawSharelinkRuns == { import_raw_sharelink(in) : in \in RawShareInputs }

ImportRawSharelink ==
    /\ runs < MaxRuns
    /\ \E r \in RawSharelinkRuns :
         /\ raw_files' = IF r.run.saved THEN [raw_files EXCEPT ![r.saved_file.path] = r.saved_file.bytes]
                         ELSE raw_files
         /\ last_state' = IF r.run.saved THEN r.last_state ELSE last_state
         /\ cells' = Written(cells, r.writes)
         /\ run' = r.run
    /\ runs' = runs + 1
    /\ UNCHANGED <<call, temp_files, _dropbox_token, _gdrive_token, _loaded_modules>>

\* the scripts of the share-link sheet
NextShareLink == ImportViaSharelink \/ ImportRawSharelink

SpecShareLink == Init /\ [][NextShareLink]_vars

-----------------------------------------------------------------------------
(* Properties of detect_file_type_from_bytes (checked under SpecBytes) *)

Sniffed == call.fn = "detect_file_type_from_bytes" /\ call.pc = "returned"

\* the first 500 bytes, decoded permissively, lower-cased and trimmed
HtmlText(buf) == strip(lower(DecodeIgnore(SubSeq(buf, 1, Min(500, Len(buf))))))

\* the text starts with <!doctype or <html, or has <html within its first 200 characters
HasHtmlMarker(buf) ==
    LET t == HtmlText(buf)
    IN  \/ Len(t) >= 9 /\ SubSeq(t, 1, 9) = DOCTYPE_TAG
        \/ \E i \in 1..196 : i + 4 <= Len(t) /\ SubSeq(t, i, i + 4) = HTML_TAG

StartsOrEndsWithPAR1(buf) ==
    Len(buf) >= 4 /\ (SubSeq(buf, 1, 4) = PAR1 \/ SubSeq(buf, Len(buf) - 3, Len(buf)) = PAR1)

HasDuckInFirst20(buf) == \E i \in 1..17 : i + 3 <= Len(buf) /\ SubSeq(buf, i, i + 3) = DUCK

HasSqliteInFirst16(buf) == \E i \in 1..2 : i + 14 <= Len(buf) /\ SubSeq(buf, i, i + 14) = SQLITE_MAGIC

HasBinarySignature(buf) ==
    StartsOrEndsWithPAR1(buf) \/ HasDuckInFirst20(buf) \/ HasSqliteInFirst16(buf)

\* the first 2048 bytes
TextSample(buf) == SubSeq(buf, 1, Min(2048, Len(buf)))

\* the sample's first character that is not whitespace ("" if there is none)
FirstNonBlank(t) ==
    IF \A i \in 1..Len(t) : t[i] \in Whitespace THEN ""
    ELSE t[CHOOSE i \in 1..Len(t) : t[i] \notin Whitespace /\ \A j \in 1..(i - 1) : t[j] \in Whitespace]

HasLineBreak(t) == \E i \in 1..Len(t) : t[i] \in {"\n", "\r"}

\* the characters of t before its first line break
FirstLine(t) ==
    IF ~HasLineBreak(t) THEN t
    ELSE SubSeq(t, 1, (CHOOSE i \in 1..Len(t) :
                          t[i] \in {"\n", "\r"} /\ \A j \in 1..(i - 1) : t[j] \notin {"\n", "\r"}) - 1)

Occurrences(t, c) == Cardinality({i \in 1..Len(t) : t[i] = c})

\* the buffer gets as far as delimiter counting
ReachesDelimiterCounting(buf) ==
    /\ Len(buf) >= 20
    /\ ~HasHtmlMarker(buf)
    /\ ~HasBinarySignature(buf)
    /\ DecodesStrict(TextSample(buf))
    /\ FirstNonBlank(DecodeIgnore(TextSample(buf))) \notin {"{", "["}
    /\ HasLineBreak(DecodeIgnore(TextSample(buf)))

\* C5: a buffer of at least 20 bytes carrying the HTML marker is html_error,
\* whatever binary signature or delimited first line it also has
C5_HtmlErrorFirst ==
    (Sniffed /\ Len(call.arg) >= 20 /\ HasHtmlMarker(call.arg)) => call.ret = "html_error"

\* an HTML page that also ends with PAR1 and has a comma-heavy first line
C5_Witness ==
    /\ Sniffed /\ Len(call.arg) >= 20 /\ HasHtmlMarker(call.arg)
    /\ StartsOrEndsWithPAR1(call.arg)
    /\ Occurrences(FirstLine(DecodeIgnore(TextSample(call.arg))), ",") >= 2
    /\ call.ret = "html_error"

\* C6: a buffer shorter than 20 bytes is unknown, whatever it contains
C6_ShortIsUnknown ==
    (Sniffed /\ Len(call.arg) < 20) => call.ret = None

\* a short buffer that starts with PAR1 and is classified unknown
C6_Witness ==
    /\ Sniffed /\ Len(call.arg) < 20 /\ Len(call.arg) >= 4
    /\ SubSeq(call.arg, 1, 4) = PAR1
    /\ call.ret = None

\* C7 as stated: the buffer "a,b,c\n1,2,3\n" is classified csv by byte sniffing
C7_ScenarioDIsCsv ==
    (Sniffed /\ call.arg = ScenarioD) => call.ret = "csv"

\* C7 amended: the 12-byte buffer "a,b,c\n1,2,3\n" is unknown (too short); the
\* same rows followed by "4,5,6\n7,8,9\n" (24 bytes) are csv, the first line
\* having 2 commas
C7_ScenarioDAmended ==
    /\ (Sniffed /\ call.arg = ScenarioD) => call.ret = None
    /\ (Sniffed /\ call.arg = ScenarioD4Rows) => call.ret = "csv"

C7_Witness ==
    /\ Sniffed /\ call.arg = ScenarioD4Rows /\ call.ret = "csv"
    /\ Occurrences(FirstLine(call.arg), ",") = 2

\* C8: a buffer that reaches delimiter counting is decided on its first line:
\* pipe for 2 or more pipes, else tsv for 2 or more tabs, else csv for 2 or
\* more commas, else txt
C8_DelimiterThreshold ==
    (Sniffed /\ ReachesDelimiterCounting(call.arg)) =>
        LET line == FirstLine(DecodeIgnore(TextSample(call.arg)))
        IN  call.ret = IF Occurrences(line, "|") >= 2 THEN "pipe"
                       ELSE IF Occurrences(line, "\t") >= 2 THEN "tsv"
                       ELSE IF Occurrences(line, ",") >= 2 THEN "csv"
                       ELSE "txt"

\* a first line with 2 pipes and 2 commas, classified pipe
C8_Witness ==
    /\ Sniffed /\ ReachesDelimiterCounting(call.arg)
    /\ Occurrences(FirstLine(DecodeIgnore(TextSample(call.arg))), "|") = 2
    /\ Occurrences(FirstLine(DecodeIgnore(TextSample(call.arg))), ",") = 2
    /\ call.ret = "pipe"

\* C9: on a non-HTML buffer of at least 20 bytes PAR1 at either end gives
\* parquet, else DUCK in the first 20 bytes gives duckdb, else the SQLite
\* magic in the first 16 bytes gives duckdb, valid text or not; 100 zero
\* bytes with PAR1 at both ends are parquet
C9_BinarySignatures ==
    (Sniffed /\ Len(call.arg) >= 20 /\ ~HasHtmlMarker(call.arg)) =>
        /\ StartsOrEndsWithPAR1(call.arg) => call.ret = "parquet"
        /\ (~StartsOrEndsWithPAR1(call.arg) /\ HasBinarySignature(call.arg)) => call.ret = "duckdb"
        /\ call.ret \in {"parquet", "duckdb"} => HasBinarySignature(call.arg)
        /\ call.arg = PAR1 \o Fill("x00", 92) \o PAR1 => call.ret = "parquet"

\* a buffer that is not valid UTF-8, ends with PAR1 and is parquet
C9_Witness ==
    /\ Sniffed /\ Len(call.arg) >= 20 /\ ~HasHtmlMarker(call.arg)
    /\ SubSeq(call.arg, 1, 4) # PAR1
    /\ SubSeq(call.arg, Len(call.arg) - 3, Len(call.arg)) = PAR1
    /\ ~DecodesStrict(TextSample(call.arg))
    /\ call.ret = "parquet"

\* C10 as stated: without HTML marker and binary signature the first 2048
\* bytes decide: invalid UTF-8 is unknown, else a leading { or [ is json, else
\* no line break is txt, else delimiters are counted; and the decode step
\* answers unknown only for a buffer that is not valid UTF-8 as a whole
C10_TextOrder ==
    (Sniffed /\ Len(call.arg) >= 20 /\ ~HasHtmlMarker(call.arg) /\ ~HasBinarySignature(call.arg)) =>
        LET sample == TextSample(call.arg)
            text == DecodeIgnore(sample)
        IN  /\ ~DecodesStrict(sample) => call.ret = None
            /\ (DecodesStrict(sample) /\ FirstNonBlank(text) \in {"{", "["}) => call.ret = "json"
            /\ (DecodesStrict(sample) /\ FirstNonBlank(text) \notin {"{", "["} /\ ~HasLineBreak(text))
                    => call.ret = "txt"
            /\ (DecodesStrict(sample) /\ FirstNonBlank(text) \notin {"{", "["} /\ HasLineBreak(text))
                    => call.ret \in {"pipe", "tsv", "csv", "txt"}
            /\ call.ret = None => ~DecodesStrict(call.arg)

-----------------------------------------------------------------------------
(* Properties of the import scripts (checked under Spec) and of needs_proxy
   (checked under SpecProxy) *)

\* the latest run got as far as classifying the download
Classified(r) == r.script \in {"import_via_sharelink", "import_via_token"} /\ "steps" \in DOMAIN r

\* index of the first hint that is a match, or the last index when none is
FirstHit(hints) ==
    IF \E i \in 1..Len(hints) : hints[i] # None
    THEN CHOOSE i \in 1..Len(hints) : hints[i] # None /\ \A j \in 1..(i - 1) : hints[j] = None
    ELSE Len(hints)

\* what each classification step of the script answers for the run r, in the order of the claim
HintsOf(r) ==
    IF r.script = "import_via_sharelink"
    THEN << detect_file_type(r.data_url),
            detect_file_type_from_header(r.in.response.content_disposition),
            detect_file_type_from_bytes(r.in.response.bytes) >>
    ELSE << detect_file_type_from_path(r.file_input),
            detect_file_type_from_bytes(r.in.response.bytes) >>

StepOrder(r) == IF r.script = "import_via_sharelink" THEN <<"url", "header", "bytes">> ELSE <<"path", "bytes">>

\* C1: the file type of a run is the first match among URL hint, header hint and
\* byte sniffing (share link) or path hint and byte sniffing (token), and the
\* steps consulted are exactly those up to the first match
C1_ResolutionOrder ==
    Classified(run) =>
        LET hints == HintsOf(run)
            k == FirstHit(hints)
        IN  /\ run.file_type = hints[k]
            /\ run.steps = SubSeq(StepOrder(run), 1, k)

\* a share-link run whose header says tsv while its bytes sniff as pipe: tsv it is
C1_Witness ==
    /\ run.script = "import_via_sharelink"
    /\ Classified(run)
    /\ run.steps = <<"url", "header">>
    /\ run.file_type = "tsv"
    /\ detect_file_type_from_bytes(run.in.response.bytes) = "pipe"
    /\ run.outcome = "imported"

\* single provider of a URL, GitHub before Google Drive before Dropbox
classifyProvider(url) ==
    LET u == lower(url)
    IN  IF contains(u, <<"g", "i", "t", "h", "u", "b", ".", "c", "o", "m">>) \/ contains(u, <<"r", "a", "w", ".", "g", "i", "t", "h", "u", "b", "u", "s", "e", "r", "c", "o", "n", "t", "e", "n", "t", ".", "c", "o", "m">>) THEN "GitHub"
        ELSE IF contains(u, <<"d", "r", "i", "v", "e", ".", "g", "o", "o", "g", "l", "e", ".", "c", "o", "m">>) \/ contains(u, <<"d", "r", "i", "v", "e", ".", "u", "s", "e", "r", "c", "o", "n", "t", "e", "n", "t", ".", "g", "o", "o", "g", "l", "e", ".", "c", "o", "m">>) THEN "GoogleDrive"
        ELSE IF contains(u, <<"d", "r", "o", "p", "b", "o", "x", ".", "c", "o", "m">>) THEN "Dropbox"
        ELSE "Other"

\* C2: needs_proxy follows the decision table on the single provider of the URL:
\* private GitHub -> proxy; private other -> none; github.com with /releases/ ->
\* proxy; Google Drive or Dropbox -> proxy; otherwise none
C2_DecisionTable ==
    (call.fn = "needs_proxy" /\ call.pc = "returned") =>
        LET u == lower(call.arg.url)
            provider == classifyProvider(call.arg.url)
        IN  call.ret = IF call.arg.is_private THEN provider = "GitHub"
                       ELSE IF contains(u, <<"g", "i", "t", "h", "u", "b", ".", "c", "o", "m">>) /\ contains(u, <<"/", "r", "e", "l", "e", "a", "s", "e", "s", "/">>) THEN TRUE
                       ELSE provider \in {"GoogleDrive", "Dropbox"}

\* C3: a run whose classification is html_error or no type stops with an error in
\* the status cell of its sheet; it leaves no temp data file, saves no last-import
\* state and calls no display routine
C3_AbortWithoutType ==
    [][ (runs' # runs /\ Classified(run') /\ run'.file_type \in {"html_error", None}) =>
            /\ run'.outcome \in {"html_error", "unknown_type"}
            /\ IF run'.script = "import_via_sharelink"
               THEN cells'.share_D5 = IF run'.file_type = "html_error"
                                      THEN "ERROR: Private link? Use TOKEN_ACCESS with credentials"
                                      ELSE "ERROR: Invalid file. Private link? Use TOKEN_ACCESS"
               ELSE cells'.token_D6 = IF run'.file_type = "html_error"
                                      THEN "ERROR: Private link? Check credentials"
                                      ELSE "ERROR: Could not detect file type"
            /\ run'.wrote = None
            /\ \A f \in DOMAIN temp_files' : temp_files'[f] = NoText
            /\ ~run'.saved
            /\ last_state' = last_state
            /\ run'.display.routine = None ]_vars

\* a share-link run that found no type, after an earlier import had saved its state
C3_Witness ==
    /\ run.script = "import_via_sharelink"
    /\ Classified(run)
    /\ run.file_type = None
    /\ run.outcome = "unknown_type"
    /\ last_state.saved
    /\ runs = 2

FileTypeTags == {"parquet", "duckdb", "csv", "tsv", "txt", "pipe", "json", "html_error"}

\* C4: the file type a run classifies its download as is a tag of the closed set
\* or no tag, and a delimited file reaches its display routine with a detected
\* delimiter
C4_ClosedTagSet ==
    Classified(run) =>
        /\ run.file_type \in FileTypeTags \cup {None}
        /\ run.display.routine = "display_delimited_schema"
              => run.display.delimiter \in {",", "\t", "|"}

-----------------------------------------------------------------------------
(* Properties of the name-based classifiers and of the URL rewrites (checked
   under SpecResolver) *)

Returned(fn) == call.fn = fn /\ call.pc = "returned"

\* the lower-cased text after the last dot of a name (NoText without a dot)
ExtensionOf(name) ==
    IF \A i \in 1..Len(name) : name[i] # "." THEN NoText
    ELSE lower(Drop(name, 1 + CHOOSE i \in 1..Len(name) :
                                name[i] = "." /\ \A j \in (i + 1)..Len(name) : name[j] # "."))

\* the tag the extension mapping gives an extension
ExtensionTag(ext) ==
    CASE ext = <<"p", "a", "r", "q", "u", "e", "t">> -> "parquet"
      [] ext = <<"d", "u", "c", "k", "d", "b">> -> "duckdb"
      [] ext = <<"c", "s", "v">> -> "csv"
      [] ext = <<"t", "s", "v">> -> "tsv"
      [] ext = <<"t", "x", "t">> -> "txt"
      [] ext = <<"p", "i", "p", "e">> -> "pipe"
      [] ext = <<"p", "s", "v">> -> "pipe"
      [] ext = <<"j", "s", "o", "n">> -> "json"
      [] OTHER -> None

\* C11: detect_file_type_from_path gives a name the tag of its extension in
\* any letter case (psv and pipe both pipe, any other extension none); for a
\* URL without a filetype parameter that urlparse accepts, detect_file_type
\* equals detect_file_type_from_path of the URL's path; and the header hint is
\* detect_file_type_from_path of the Content-Disposition file name
C11_ExtensionMapping ==
    /\ Returned("detect_file_type_from_path") => call.ret = ExtensionTag(ExtensionOf(call.arg))
    /\ (Returned("detect_file_type") /\ call.query \in PlainQueries /\ call.ret # "raises")
          => call.ret = detect_file_type_from_path(call.path)
    /\ Returned("detect_file_type_from_header")
          => call.ret = IF call.name = NoText THEN None ELSE detect_file_type_from_path(call.name)

\* an upper-case .PSV file below a directory, in a URL without filetype
\* parameter, classified pipe
C11_Witness ==
    /\ Returned("detect_file_type") /\ call.query \in PlainQueries
    /\ ExtensionOf(call.path) = <<"p", "s", "v">>
    /\ call.path # lower(call.path)
    /\ call.ret = "pipe"

\* the fields of a URL's query: the text between the question mark and the
\* fragment, cut at the ampersands
QueryFields(query) ==
    IF query = <<>> \/ query[1] # "?" THEN <<>>
    ELSE Split(SplitFirst(Drop(query, 2), "#"), "&")

\* the decoded, lower-cased value of the first filetype field of a query that
\* has a value (NoText when there is none)
FiletypeValue(query) ==
    LET fields == QueryFields(query)
        named == { i \in 1..Len(fields) :
                     startswith(fields[i], FILETYPE \o <<"=">>) /\ Len(fields[i]) > Len(FILETYPE) + 1 }
    IN  IF named = {} THEN NoText
        ELSE lower(unquote(Drop(fields[CHOOSE i \in named : \A j \in named : i <= j],
                                Len(FILETYPE) + 2)))

\* the text after the last slash of a path
FinalSegment(path) ==
    IF \A i \in 1..Len(path) : path[i] # "/" THEN path
    ELSE Drop(path, 1 + CHOOSE i \in 1..Len(path) :
                            path[i] = "/" /\ \A j \in (i + 1)..Len(path) : path[j] # "/")

\* C12: for a URL urlparse accepts, a filetype parameter whose value is a
\* recognised type in any letter case decides the hint whatever the path
\* says; otherwise the extension of the final path segment decides; and when
\* neither matches the hint is none and the share-link classification goes
\* on to the header step
C12_HintPrecedence ==
    (Returned("detect_file_type") /\ call.ret # "raises") =>
        /\ call.ret = IF FiletypeValue(call.query) \in FileTypeWords
                      THEN TagOf(FiletypeValue(call.query))
                      ELSE ExtensionTag(ExtensionOf(FinalSegment(call.path)))
        /\ call.ret = None =>
              \A x \in HintedExchanges :
                  LET steps == SharelinkClassify(call.ret, x.response).steps
                  IN  Len(steps) >= 2 /\ steps[2] = "header"

\* /data/f.csv?filetype=parquet is parquet: the parameter wins over the extension
C12_Witness ==
    /\ Returned("detect_file_type")
    /\ ExtensionOf(FinalSegment(call.path)) = <<"c", "s", "v">>
    /\ FiletypeValue(call.query) = <<"p", "a", "r", "q", "u", "e", "t">>
    /\ call.ret = "parquet"

\* the URL names a Google Drive host
IsDriveUrl(url) ==
    \/ contains(lower(url), <<"d", "r", "i", "v", "e", ".", "g", "o", "o", "g", "l", "e", ".", "c", "o", "m">>)
    \/ contains(lower(url), <<"d", "r", "i", "v", "e", ".", "u", "s", "e", "r", "c", "o", "n", "t", "e", "n", "t", ".", "g", "o", "o", "g", "l", "e", ".", "c", "o", "m">>)

\* the URL is already a direct download URL
IsDirectDriveUrl(url) ==
    /\ contains(lower(url), <<"d", "r", "i", "v", "e", ".", "u", "s", "e", "r", "c", "o", "n", "t", "e", "n", "t", ".", "g", "o", "o", "g", "l", "e", ".", "c", "o", "m">>)
    /\ contains(lower(url), <<"c", "o", "n", "f", "i", "r", "m", "=", "t">>)

\* the file id of a generated URL: the first of its three forms that carries one
FirstId(in) ==
    IF in.by_path # NoText THEN in.by_path
    ELSE IF in.by_open # NoText THEN in.by_open
    ELSE in.by_id

SHARE_EXAMPLE == <<"h", "t", "t", "p", "s", ":", "/", "/", "d", "r", "i", "v", "e", ".", "g", "o", "o", "g", "l", "e", ".", "c", "o", "m", "/", "f", "i", "l", "e", "/", "d", "/", "1", "A", "2", "B", "3", "C", "/", "v", "i", "e", "w", "?", "u", "s", "p", "=", "s", "h", "a", "r", "i", "n", "g">>
DIRECT_EXAMPLE == <<"h", "t", "t", "p", "s", ":", "/", "/", "d", "r", "i", "v", "e", ".", "u", "s", "e", "r", "c", "o", "n", "t", "e", "n", "t", ".", "g", "o", "o", "g", "l", "e", ".", "c", "o", "m", "/", "d", "o", "w", "n", "l", "o", "a", "d", "?", "i", "d", "=", "1", "A", "2", "B", "3", "C", "&", "e", "x", "p", "o", "r", "t", "=", "d", "o", "w", "n", "l", "o", "a", "d", "&", "c", "o", "n", "f", "i", "r", "m", "=", "t">>

\* C13: on a Google Drive URL that is not already direct and carries a file
\* id, convert_google_drive_url returns the direct download URL of the id of
\* the first form that matches among /file/d/{id}, open?id={id} and id={id},
\* with rewritten true; the sharing URL of file 1A2B3C becomes the direct URL
\* of 1A2B3C; and needs_proxy sends every rewritten URL through the public proxy
C13_DriveRewrite ==
    (Returned("convert_google_drive_url") /\ call.round = 1) =>
        /\ (IsDriveUrl(call.arg) /\ ~IsDirectDriveUrl(call.arg) /\ FirstId(call.in) # NoText)
              => call.ret = [url |-> GDRIVE_DIRECT_PREFIX \o FirstId(call.in) \o GDRIVE_DIRECT_SUFFIX,
                             rewritten |-> TRUE]
        /\ call.arg = SHARE_EXAMPLE => call.ret.url = DIRECT_EXAMPLE
        /\ call.ret.rewritten => needs_proxy(call.ret.url, FALSE)

\* a URL with an id in its path and another in its query: the path form wins
C13_Witness ==
    /\ Returned("convert_google_drive_url") /\ call.round = 1
    /\ call.in.by_path = <<"1", "A", "2", "B", "3", "C">>
    /\ call.in.by_id = <<"x", "_", "Y", "-", "9">>
    /\ call.ret.rewritten
    /\ call.ret.url = DIRECT_EXAMPLE

\* C14: convert_google_drive_url returns its input with rewritten false when
\* the URL names no Google Drive host, when it is already direct, and when it
\* carries no file id; applied to its own output it returns that output with
\* rewritten false; and a rewritten URL differs from the input
C14_DriveUnchanged ==
    Returned("convert_google_drive_url") =>
        /\ (call.round = 1 /\ (\/ ~IsDriveUrl(call.arg)
                                \/ IsDirectDriveUrl(call.arg)
                                \/ FirstId(call.in) = NoText))
              => call.ret = [url |-> call.arg, rewritten |-> FALSE]
        /\ call.round = 2 => call.ret = [url |-> call.first.url, rewritten |-> FALSE]
        /\ call.ret.rewritten => call.ret.url # call.arg

\* the second application to a URL that the first application rewrote
C14_Witness ==
    /\ Returned("convert_google_drive_url") /\ call.round = 2
    /\ call.first.rewritten
    /\ call.ret = [url |-> call.first.url, rewritten |-> FALSE]

\* a query field as its decoded name and value (the value is empty when the
\* field has no equals sign)
FieldPair(field) ==
    LET eq == IF \E i \in 1..Len(field) : field[i] = "="
              THEN CHOOSE i \in 1..Len(field) : field[i] = "=" /\ \A j \in 1..(i - 1) : field[j] # "="
              ELSE Len(field) + 1
    IN  [name |-> unquote(replace(SubSeq(field, 1, eq - 1), "+", " ")),
         value |-> unquote(replace(SubSeq(field, eq + 1, Len(field)), "+", " "))]

\* the decoded fields of a query, in order
FieldPairs(fields) == [i \in 1..Len(fields) |-> FieldPair(fields[i])]

\* the parts of a URL's text: what precedes the question mark, the fields of
\* the query and the fragment with its hash sign
UrlParts(url) ==
    LET front == SplitFirst(url, "#")
        base == SplitFirst(front, "?")
    IN  [base |-> base,
         fields |-> IF Len(base) = Len(front) THEN <<>> ELSE Split(Drop(front, Len(base) + 2), "&"),
         fragment |-> Drop(url, Len(front) + 1)]

\* the value of the first dl field that has a value ("0" when there is none),
\* which is the value the query's dl parameter has for parse_qs(...)['dl'][0]
DlValue(fields) ==
    LET pairs == FieldPairs(fields)
        named == { i \in 1..Len(pairs) : pairs[i].name = <<"d", "l">> /\ pairs[i].value # <<>> }
    IN  IF named = {} THEN <<"0">> ELSE pairs[CHOOSE i \in named : \A j \in named : i <= j].value

NotDl(pair) == pair.name # <<"d", "l">>

\* C15: convert_dropbox_url applied to the URL it returned returns that URL
\* again with rewritten false, and a URL naming dropbox.com whose query's dl
\* parameter already is 1 is returned unchanged with rewritten false
C15_DropboxIdempotent ==
    (Returned("convert_dropbox_url") /\ ~call.ret.raises) =>
        /\ call.round = 2 => (call.ret.url = call.first.url /\ ~call.ret.rewritten)
        /\ (call.round = 1 /\ DlValue(call.in.fields) = <<"1">>)
              => (call.ret.url = call.arg /\ ~call.ret.rewritten)

\* the second application to a Dropbox URL whose dl=0 the first turned into dl=1
C15_Witness ==
    /\ Returned("convert_dropbox_url") /\ call.round = 2
    /\ call.first.rewritten
    /\ DlValue(call.in.fields) = <<"0">>
    /\ DlValue(UrlParts(call.arg).fields) = <<"1">>
    /\ call.ret.url = call.first.url /\ ~call.ret.rewritten

\* C16: a URL that convert_dropbox_url rewrote differs from the input only in
\* dl, which is a single dl=1: what precedes the query (scheme, host, path),
\* the fragment and every other query field, blank-valued and repeated ones
\* included, are those of the input
C16_OnlyDlChanges ==
    (Returned("convert_dropbox_url") /\ call.round = 1 /\ call.ret.rewritten) =>
        LET out == UrlParts(call.ret.url)
        IN  /\ out.base = call.in.base
            /\ out.fragment = call.in.fragment
            /\ SelectSeq(FieldPairs(out.fields), NotDl) = SelectSeq(FieldPairs(call.in.fields), NotDl)
            /\ SelectSeq(out.fields, LAMBDA f : ~NotDl(FieldPair(f))) = << <<"d", "l", "=", "1">> >>

-----------------------------------------------------------------------------
(* Properties of the requests the share-link scripts make (checked under
   SpecShareLink) *)

\* the latest run is one of a share-link script that got as far as its request
Fetched(r) == r.script \in {"import_via_sharelink", "import_raw_sharelink"} /\ r.requests # <<>>

\* the URL in B5 after the Google Drive and the Dropbox rewrite, for every URL
\* the share-link scripts are run on
RewrittenUrls ==
    [ u \in { strip(in.B5.v) : in \in { i \in SharelinkInputs \cup RawShareInputs : i.B5.t = "str" } }
        |-> convert_dropbox_url(convert_google_drive_url(u).url).url ]

\* the URL a share-link run read from B5 after the Google Drive and the
\* Dropbox rewrite
RewrittenUrl(r) == RewrittenUrls[strip(r.in.B5.v)]

\* RFC 3986 unreserved characters
Unreserved == LowerCase \cup UpperCase \cup Digits \cup {"-", ".", "_", "~"}

\* every character of enc is unreserved or part of a percent escape, and
\* decoding the escapes gives target
EncodingOf(enc, target) ==
    /\ \A i \in 1..Len(enc) :
          \/ enc[i] \in Unreserved
          \/ enc[i] = "%" /\ i + 2 <= Len(enc) /\ HexVal(enc[i + 1]) >= 0 /\ HexVal(enc[i + 2]) >= 0
    /\ unquote(enc) = target

\* base without the slashes at its end
TrimmedBase(base) ==
    SubSeq(base, 1, CHOOSE k \in 0..Len(base) :
                        /\ k > 0 => base[k] # "/"
                        /\ \A j \in (k + 1)..Len(base) : base[j] = "/")

\* url is host, then /?url=, then target percent-encoded
Wraps(url, host, target) ==
    /\ startswith(url, host \o <<"/", "?", "u", "r", "l", "=">>)
    /\ EncodingOf(Drop(url, Len(host) + 7), target)

PUBLIC_HOST == <<"h", "t", "t", "p", "s", ":", "/", "/", "g", "i", "t", "h", "u", "b", "-", "p", "r", "o", "x", "y", "-", "a", "u", "t", "h", ".", "t", "i", "g", "z", "i", "g", ".", "c", "o", "m">>

\* the script fetches a private GitHub resource
PrivateGitHub(r) == r.is_private /\ is_github_url(RewrittenUrl(r))

\* C17: a request through the public proxy goes to the fixed host followed by
\* /?url= and the rewritten URL with every reserved character escaped, and
\* carries no header; a request through the private proxy goes to the base of
\* B17 without its trailing slash followed by the same suffix; in both, the
\* URL wrapped is the rewritten URL
C17_ProxyUrlConstruction ==
    Fetched(run) =>
        LET request == run.requests[1]
            data_url == RewrittenUrl(run)
        IN  IF PrivateGitHub(run)
            THEN Wraps(request.url, TrimmedBase(strip(run.in.B17.v)), data_url)
            ELSE IF needs_proxy(data_url, run.is_private)
            THEN /\ Wraps(request.url, PUBLIC_HOST, data_url)
                 /\ request.headers.Authorization = NoText
            ELSE request.url = data_url

\* a Google Drive sharing link fetched through the public proxy: what is
\* wrapped is the direct download URL, slashes escaped
C17_Witness ==
    /\ Fetched(run)
    /\ strip(run.in.B5.v) = URL_GDRIVE
    /\ RewrittenUrl(run) # URL_GDRIVE
    /\ Wraps(run.requests[1].url, PUBLIC_HOST, RewrittenUrl(run))
    /\ ~contains(Drop(run.requests[1].url, Len(PUBLIC_HOST) + 7), <<"/">>)

\* C18: a request of a share-link script goes to the private proxy with the
\* header Authorization: token <PAT> exactly when the script was told the
\* resource is private and the rewritten URL is a GitHub URL; every other
\* request has no header; with the private flag set no request goes to the
\* public proxy; and the PAT goes to the private proxy only
C18_PrivateProxyOnly ==
    Fetched(run) =>
        LET request == run.requests[1]
            private == run.script = "import_via_sharelink" /\ PrivateGitHub(run)
        IN  /\ private <=> (/\ run.script = "import_via_sharelink"
                             /\ ~IsMissingStr(run.in.B17)
                             /\ startswith(request.url, TrimmedBase(strip(run.in.B17.v)) \o <<"/", "?">>)
                             /\ request.headers.Authorization = TOKEN_PREFIX \o run.in.env_pat)
            /\ ~private => request.headers.Authorization = NoText
            /\ run.is_private => ~startswith(request.url, PUBLIC_HOST)
            /\ request.headers.Authorization # NoText
                  => /\ ~startswith(request.url, PUBLIC_HOST)
                     /\ request.url # RewrittenUrl(run)
                     /\ request.url # strip(run.in.B5.v)
            /\ run.script = "import_raw_sharelink" => ~run.is_private

\* a private GitHub release fetched through the private proxy with the PAT
C18_Witness ==
    /\ Fetched(run)
    /\ run.script = "import_via_sharelink"
    /\ run.is_private
    /\ strip(run.in.B5.v) = URL_RELEASE
    /\ startswith(run.requests[1].url, <<"h", "t", "t", "p", "s", ":", "/", "/", "p", "r", "o", "x", "y", ".", "e", "x", "a", "m", "p", "l", "e", ".", "c", "o", "m", "/", "?", "u", "r", "l", "=">>)
    /\ run.requests[1].headers.Authorization = TOKEN_PREFIX \o PAT

\* C20: import_via_sharelink run with the private flag set on a URL that is
\* not a GitHub URL makes no request
C20_PrivateNonGitHubRejected ==
    (/\ run.script = "import_via_sharelink"
     /\ run.outcome \notin {"no_sheet", "no_url"}
     /\ run.is_private
     /\ ~is_github_url(RewrittenUrl(run)))
        => run.requests = <<>>

-----------------------------------------------------------------------------
(* Properties of the proxy configuration checks (checked under Spec) *)

\* no proxy base in the cell: the cell is empty or holds only blanks
NoBaseSupplied(cell) == cell.t = "empty" \/ (cell.t = "str" /\ strip(cell.v) = <<>>)

\* C19: a run that asks for private GitHub access without a proxy base stops
\* without making any request: import_via_sharelink with the private flag set
\* and no base in B17, and import_via_token for provider GitHub with no base in B7
C19_NoBaseStops ==
    /\ (/\ run.script = "import_via_sharelink"
        /\ run.outcome \notin {"no_sheet", "no_url"}
        /\ run.is_private
        /\ NoBaseSupplied(run.in.B17))
           => run.outcome = "no_proxy_base" /\ run.requests = <<>>
    /\ (/\ run.script = "import_via_token"
        /\ run.stage = "download"
        /\ run.provider = GITHUB
        /\ NoBaseSupplied(run.in.B7))
           => run.requests = <<>>

-----------------------------------------------------------------------------
(* Properties of the delimiter handed to the delimited import (checked under
   Spec) *)

\* the length of the first line: the bytes before the first line feed
FirstLineLength(buf) ==
    IF \E i \in 1..Len(buf) : buf[i] = "\n"
    THEN (CHOOSE i \in 1..Len(buf) : buf[i] = "\n" /\ \A j \in 1..(i - 1) : buf[j] # "\n") - 1
    ELSE Len(buf)

\* '|' if the first line has a pipe, else tab if it has a tab, else ','
SeparatorOf(buf) ==
    LET n == FirstLineLength(buf)
    IN  IF \E i \in 1..n : buf[i] = "|" THEN "|"
        ELSE IF \E i \in 1..n : buf[i] = "\t" THEN "\t"
        ELSE ","

\* the latest run is an import that got as far as its display routine
Displayed(r) == r.script \in {"import_via_sharelink", "import_via_token"} /\ r.saved

DelimitedTypes == {"csv", "tsv", "txt", "pipe"}

\* C21: an import whose final type is csv, tsv, txt or pipe hands the
\* delimited import the separator found in the first line of the bytes ('|',
\* else tab, else ','), whatever separator the type suggests, and goes on to
\* the import without writing an error
C21_ContentDelimiterWins ==
    [][ (Displayed(run') /\ run'.file_type \in DelimitedTypes)
            => /\ run'.display.routine = "display_delimited_schema"
               /\ run'.display.delimiter = SeparatorOf(run'.in.response.bytes)
               /\ run'.in.display_ok
                     => /\ run'.outcome = "imported"
                        /\ IF run'.script = "import_via_sharelink"
                           THEN cells'.share_D5 = cells.share_D5
                           ELSE cells'.token_D6 = "" ]_vars

\* a file typed csv by its name whose first line has tabs and a pipe is
\* imported with '|'
C21_Witness ==
    /\ Displayed(run)
    /\ run.script = "import_via_sharelink"
    /\ run.file_type = "csv"
    /\ run.in.response.bytes = MixedText
    /\ run.display.delimiter = "|"
    /\ run.outcome = "imported"

-----------------------------------------------------------------------------
(* Properties of the resolver and the classifiers as functions (checked under
   SpecResolver) *)

\* the call ended with an exception instead of a value
Raised(c) ==
    /\ c.pc = "returned"
    /\ \/ c.fn = "detect_file_type" /\ c.ret = "raises"
       \/ c.fn = "convert_dropbox_url" /\ c.ret.raises

\* C22: no call of a resolver or classifier function raises, however
\* malformed its argument
C22_Total == ~Raised(call)

-----------------------------------------------------------------------------
(* Properties of the token caches (checked under SpecTokens) *)

\* the cache of the provider a token call is for
CacheOf(fn, dropbox, gdrive) == IF fn = "get_dropbox_token" THEN dropbox ELSE gdrive

\* the cache of the other provider
OtherCacheOf(fn, dropbox, gdrive) == IF fn = "get_dropbox_token" THEN gdrive ELSE dropbox

\* the call made a request and was given a token
Exchanged(r) == r.requests # <<>> /\ r.error = None

\* C24: a call that finds a token in its provider's cache returns that token
\* with no request, whatever the environment holds, and leaves it cached; a
\* successful exchange happens only on an empty cache and fills it; a call that
\* raises leaves the cache empty; and no call changes the other provider's cache
C24_TokenCaching ==
    [][ LET before == CacheOf(run'.script, _dropbox_token, _gdrive_token)
            after == CacheOf(run'.script, _dropbox_token', _gdrive_token')
        IN  /\ before # NoText
                  => /\ run'.error = None /\ run'.token = before
                     /\ run'.requests = <<>>
                     /\ after = before
            /\ Exchanged(run') => before = NoText /\ after = run'.token /\ after # NoText
            /\ run'.error # None => before = NoText /\ after = NoText
            /\ OtherCacheOf(run'.script, _dropbox_token', _gdrive_token')
                  = OtherCacheOf(run'.script, _dropbox_token, _gdrive_token) ]_vars

\* a Dropbox token obtained earlier is returned although the environment is
\* empty now and the server would hand out another token; no Google Drive
\* token was obtained
C24_Witness ==
    /\ run.script = "get_dropbox_token"
    /\ run.cached_before = ACCESS_TOKEN
    /\ ~run.in.env_dropbox
    /\ run.in.token_response = TokenRegranted
    /\ run.token = ACCESS_TOKEN
    /\ run.requests = <<>>
    /\ _dropbox_token = ACCESS_TOKEN
    /\ _gdrive_token = NoText

-----------------------------------------------------------------------------
(* Properties of the functions called from interleaved import operations
   (checked under SpecInterleaved) *)

-----------------------------------------------------------------------------
(* Properties of the requests of import_via_token (checked under Spec) *)

\* the request carries the GitHub PAT
CarriesPat(request) == startswith(request.headers.Authorization, TOKEN_PREFIX)

\* C25: a request of import_via_token that carries the PAT goes to a GitHub
\* URL or to the auth proxy named in B7
C25_PatOnlyToGitHub ==
    run.script = "import_via_token"
        => \A i \in DOMAIN run.requests :
              CarriesPat(run.requests[i])
                  => \/ is_github_url(run.requests[i].url)
                     \/ /\ run.in.B7.t = "str"
                        /\ strip(run.in.B7.v) # <<>>
                        /\ startswith(run.requests[i].url,
                                      TrimmedBase(strip(run.in.B7.v)) \o <<"/", "?">>)

-----------------------------------------------------------------------------
(* Properties of the files an import leaves behind (checked under Spec) *)

\* there is a file at path in the temp directory
FileExists(path) ==
    \/ path \in DOMAIN temp_files /\ temp_files[path] # NoText
    \/ path \in DOMAIN raw_files /\ raw_files[path] # NoText

\* the latest run is an import that ran to the end without an error
Completed(r) ==
    \/ r.script \in {"import_via_sharelink", "import_via_token"} /\ r.outcome = "imported"
    \/ r.script = "import_raw_sharelink" /\ r.outcome = "saved"

\* C26: after an import that ran to completion the last-import state is that
\* of this import and its file_path names a file that exists
C26_LastImportFileExists ==
    Completed(run)
        => /\ last_state.saved
           /\ last_state.file_path = run.wrote
           /\ FileExists(last_state.file_path)

\* the temp files that exist
Existing(files) == { p \in DOMAIN files : files[p] # NoText }

-----------------------------------------------------------------------------
(* Properties relating the byte classifier to the delimiter detection
   (checked under SpecBytes) *)

\* the separator a delimited type stands for
SeparatorOfType(file_type) ==
    CASE file_type = "csv" -> "," [] file_type = "tsv" -> "\t" [] file_type = "pipe" -> "|"

\* C28: a buffer that detect_file_type_from_bytes types csv, tsv or pipe has
\* the separator of that type as its detect_delimiter_from_content result
C28_SniffAgreesWithDelimiter ==
    (Sniffed /\ call.ret \in {"csv", "tsv", "pipe"})
        => detect_delimiter_from_content(call.arg) = SeparatorOfType(call.ret)

-----------------------------------------------------------------------------
(* Properties of the remote module cache (checked under SpecModules) *)

\* C29: a call for a name that is in the cache returns the cached globals
\* with no fetch and no exec, whatever URL is passed, and leaves the cache as it
\* is; a call for a name that is not fetches once, and either raises and stores
\* nothing or executes the code and stores the globals it returns; entries of
\* other names are never touched
C29_ModuleLoadedOnce ==
    [][ run'.script = "load_remote_module"
          => LET name == run'.in.module_name
                 before == _loaded_modules[name]
                 after == _loaded_modules'[name]
             IN  /\ before # NoModule
                       => /\ ~run'.raised /\ run'.ret = before
                          /\ run'.requests = <<>> /\ ~run'.executed
                          /\ after = before
                 /\ before = NoModule
                       => /\ Len(run'.requests) = 1
                          /\ run'.raised => after = NoModule
                          /\ ~run'.raised => run'.executed /\ after = run'.ret /\ after # NoModule
                 /\ \A m \in ModuleNames \ {name} : _loaded_modules'[m] = _loaded_modules[m] ]_vars

\* a module loaded from the default URL is returned to a call that passes
\* another URL while the server holds another version
C29_Witness ==
    /\ run.script = "load_remote_module"
    /\ run.in.module_name = "imdb_stats"
    /\ run.in.github_url = MIRROR_URL
    /\ run.in.response.code = "version 2"
    /\ run.ret.file = GITHUB_RAW_BASE \o "/imdb_stats.py"
    /\ run.ret.code = "version 1"
    /\ run.requests = <<>>
    /\ _loaded_modules["cricket_stats"] = NoModule

-----------------------------------------------------------------------------
(* Properties of the status cell of import_raw_sharelink (checked under
   SpecShareLink) *)

\* the error messages import_raw_sharelink writes to D8
RawErrors ==
    {MSG_RAW_ENTER_URL, MSG_RAW_MODE, MSG_RAW_FILENAME, MSG_DOWNLOAD_STATUS, MSG_EXCEPTION,
     MSG_RAW_SAVE_FAILED}

\* C30: a run of import_raw_sharelink that found its sheet ends with
\* 'Saved: <path>' in D8 exactly when it wrote the downloaded bytes to the raw
\* temp path of the file name in B8 and saved the last-import state for that
\* path; every other run ends with an error message in D8, writes no file and
\* leaves the last-import state as it was
C30_RawStatusCell ==
    [][ (run'.script = "import_raw_sharelink" /\ run'.outcome # "no_sheet")
          => /\ run'.saved
                   => LET temp_path == get_raw_temp_path(NormalizedFilename(run'.in.B8.v))
                      IN  /\ cells'.share_D8 = "Saved: " \o temp_path
                          /\ raw_files'[temp_path] = run'.in.response.bytes
                          /\ last_state'.saved /\ last_state'.file_path = temp_path
             /\ ~run'.saved
                   => /\ cells'.share_D8 \in RawErrors
                      /\ raw_files' = raw_files
                      /\ last_state' = last_state ]_vars

====
